---- MODULE Spec2Model ----
(***************************************************************************)
(* The Foreman of aura_core: call_llm (the plan compiler: repair of the    *)
(* model's reply, json.loads, structural validation), execute_step (tool   *)
(* name normalisation, $PREV_OUTPUT substitution, dynamic import, run,     *)
(* classification of the result) and handle_request (the step loop).       *)
(* The code is src/src/aura_core/apprentices/slide_creator.py, whose       *)
(* content is the module aura_core.foreman.                                *)
(*                                                                         *)
(* Text is a sequence of one-character strings.  A Python/JSON value is a  *)
(* record [k |-> kind, v |-> content]:                                     *)
(*   "null" (v = 0), "bool" (v a BOOLEAN), "int" (v an integer),           *)
(*   "str" (v a text), "list" (v a sequence of values),                    *)
(*   "dict" (v a sequence of <<key text, value>> pairs, keys distinct, in  *)
(*   insertion order as in a Python dict).                                 *)
(* Floats are left out of the value universe.                              *)
(***************************************************************************)
EXTENDS Integers, Sequences, FiniteSets, TLC

VARIABLES
    reply,                  \* the language model's answer to ollama.chat
    pc,                     \* where handle_request is
    raw_output,             \* call_llm's raw_output
    json_plan_str,          \* call_llm's json_plan_str
    plan,                   \* handle_request's plan
    i,                      \* the loop index of handle_request (0-based)
    previous_step_output,   \* handle_request's previous_step_output
    all_steps_succeeded,    \* handle_request's all_steps_succeeded
    console,                \* what handle_request printed about the run
    notices,                \* the warning and info lines call_llm printed
    trace                   \* history: one record per call of execute_step

vars == <<reply, pc, raw_output, json_plan_str, plan, i, previous_step_output,
          all_steps_succeeded, console, notices, trace>>

\* ------------------------------------------------------------------------
\* Characters named by code point (the cross mark, the check mark and the
\* grave accent of a code fence), and the two quote characters.
\* ------------------------------------------------------------------------
CrossMark == "U+274C"
CheckMark == "U+2705"
Apostrophe == "'"
Backtick == "U+0060"
DoubleQuote == "\""

\* ------------------------------------------------------------------------
\* Python str methods, as the code uses them.
\* ------------------------------------------------------------------------

\* s[a:b] with 0-based, end-exclusive, non-negative indexes.
Slice(s, a, b) == SubSeq(s, a + 1, IF b < Len(s) THEN b ELSE Len(s))

\* s.startswith(p)
StartsWith(s, p) == Len(p) <= Len(s) /\ SubSeq(s, 1, Len(p)) = p

\* s.find(c) for a one-character c: 0-based index of the first c, or -1.
Find(s, c) ==
    IF \E n \in 1..Len(s) : s[n] = c
    THEN (CHOOSE n \in 1..Len(s) : s[n] = c /\ \A m \in 1..(n - 1) : s[m] # c) - 1
    ELSE -1

\* s.rfind(c) for a one-character c: 0-based index of the last c, or -1.
RFind(s, c) ==
    IF \E n \in 1..Len(s) : s[n] = c
    THEN (CHOOSE n \in 1..Len(s) : s[n] = c /\ \A m \in (n + 1)..Len(s) : s[m] # c) - 1
    ELSE -1

\* s.count(c) for a one-character c.
Count(s, c) == Cardinality({n \in 1..Len(s) : s[n] = c})

\* s.replace(old, new) for a non-empty old: the occurrences are taken from
\* the left and do not overlap.  (One character for one character is the
\* same replacement written pointwise.)
RECURSIVE Replace(_, _, _)
Replace(s, old, new) ==
    IF Len(old) = 1 /\ Len(new) = 1
    THEN [n \in 1..Len(s) |-> IF s[n] = old[1] THEN new[1] ELSE s[n]]
    ELSE LET hits == {n \in 1..(Len(s) - Len(old) + 1) :
                         SubSeq(s, n, n + Len(old) - 1) = old}
         IN  IF hits = {} THEN s
             ELSE LET first == CHOOSE n \in hits : \A m \in hits : n <= m
                  IN  SubSeq(s, 1, first - 1) \o new
                      \o Replace(SubSeq(s, first + Len(old), Len(s)), old, new)

\* The whitespace str.strip() removes (within the model's character set).
Whitespace == {" ", "\n", "\t", "\r"}

\* A strip of the right end only (s.rstrip()).
StripRightOnly(s) ==
    LET keep == {n \in 1..Len(s) : s[n] \notin Whitespace}
    IN  IF keep = {} THEN <<>>
        ELSE SubSeq(s, 1, CHOOSE n \in keep : \A m \in keep : m <= n)

\* s.strip()
Strip(s) ==
    LET keep == {n \in 1..Len(s) : s[n] \notin Whitespace}
    IN  IF keep = {} THEN <<>>
        ELSE LET lo == CHOOSE n \in keep : \A m \in keep : n <= m
                 hi == CHOOSE n \in keep : \A m \in keep : m <= n
             IN  SubSeq(s, lo, hi)

\* c.lower() for one character: the ASCII letters; every other character of
\* the model's character set is its own lower case.
LowerChar(c) ==
    CASE c = "A" -> "a" [] c = "B" -> "b" [] c = "C" -> "c" [] c = "D" -> "d"
      [] c = "E" -> "e" [] c = "F" -> "f" [] c = "G" -> "g" [] c = "H" -> "h"
      [] c = "I" -> "i" [] c = "J" -> "j" [] c = "K" -> "k" [] c = "L" -> "l"
      [] c = "M" -> "m" [] c = "N" -> "n" [] c = "O" -> "o" [] c = "P" -> "p"
      [] c = "Q" -> "q" [] c = "R" -> "r" [] c = "S" -> "s" [] c = "T" -> "t"
      [] c = "U" -> "u" [] c = "V" -> "v" [] c = "W" -> "w" [] c = "X" -> "x"
      [] c = "Y" -> "y" [] c = "Z" -> "z" [] OTHER -> c

\* s.lower()
Lower(s) == [n \in 1..Len(s) |-> LowerChar(s[n])]

\* sub in s
Contains(s, sub) ==
    \E n \in 0..(Len(s) - Len(sub)) : SubSeq(s, n + 1, n + Len(sub)) = sub

\* c * n for a one-character c.
Repeat(c, n) == [m \in 1..n |-> c]

\* ------------------------------------------------------------------------
\* call_llm: the repair of the model's reply (the "cleanup logic").
\* ------------------------------------------------------------------------

\* The cleanup rules of the branch that found a '[' ... ']' pair, applied to
\* the slice raw_output[start_index : end_index + 1].
SlicedCleanup(sliced) ==
    LET s1 == Replace(Replace(sliced, <<Backtick, Backtick, Backtick, "j", "s", "o", "n">>, <<>>),
                      <<Backtick, Backtick, Backtick>>, <<>>)
        s2 == Replace(s1, <<"*", "*">>, <<>>)
        s3 == Replace(Replace(s2, <<":", " ", "T", "r", "u", "e">>,
                                  <<":", " ", "t", "r", "u", "e">>),
                      <<",", " ", "T", "r", "u", "e">>, <<",", " ", "t", "r", "u", "e">>)
        s4 == Replace(Replace(s3, <<":", " ", "F", "a", "l", "s", "e">>,
                                  <<":", " ", "f", "a", "l", "s", "e">>),
                      <<",", " ", "F", "a", "l", "s", "e">>,
                      <<",", " ", "f", "a", "l", "s", "e">>)
        s5 == Replace(Replace(s4, <<":", " ", "N", "o", "n", "e">>,
                                  <<":", " ", "n", "u", "l", "l">>),
                      <<",", " ", "N", "o", "n", "e">>, <<",", " ", "n", "u", "l", "l">>)
        s6 == Replace(s5, <<" ", "n", "u", "l", "l">>, <<" ", "n", "u", "l", "l">>)
        s7 == Replace(s6, <<Apostrophe>>, <<DoubleQuote>>)
    IN  Strip(s7)

\* The cleanup rules of the fallback branch (no bracket pair), applied to the
\* whole raw_output.
FallbackCleanup(raw) ==
    LET s1 == Replace(Replace(raw, <<":", " ", "T", "r", "u", "e">>,
                                   <<":", " ", "t", "r", "u", "e">>),
                      <<":", " ", "F", "a", "l", "s", "e">>,
                      <<":", " ", "f", "a", "l", "s", "e">>)
        s2 == Replace(Replace(s1, <<":", " ", "N", "o", "n", "e">>,
                                  <<":", " ", "n", "u", "l", "l">>),
                      <<" ", "n", "u", "l", "l">>, <<" ", "n", "u", "l", "l">>)
    IN  Replace(s2, <<Apostrophe>>, <<DoubleQuote>>)

\* A test that takes any '[' and any ']' for a pair, whatever their order.
HasBracketPairAnyOrder(raw) == Find(raw, "[") # -1 /\ RFind(raw, "]") # -1

\* TRUE when the code takes the slicing branch.
HasBracketPair(raw) ==
    LET start_index == Find(raw, "[")
        end_index == RFind(raw, "]")
    IN  start_index # -1 /\ end_index # -1 /\ end_index > start_index

\* A cleanup that never slices: the fallback rules on the whole reply.
CleanupWithoutSlicing(raw) == FallbackCleanup(raw)

\* The text the cleanup branch leaves in json_plan_str.
Cleanup(raw) ==
    IF HasBracketPair(raw)
    THEN SlicedCleanup(Slice(raw, Find(raw, "["), RFind(raw, "]") + 1))
    ELSE FallbackCleanup(raw)

\* A brace-balancing that appends a single '}' whatever the deficit.
BraceBalanceOne(s) ==
    IF Count(s, "{") > Count(s, "}") THEN s \o <<"}">> ELSE s

\* The brace-balancing logic: append the missing '}'.
BraceBalance(s) ==
    LET open_braces == Count(s, "{")
        close_braces == Count(s, "}")
    IN  IF open_braces > close_braces
        THEN s \o Repeat("}", open_braces - close_braces)
        ELSE s

\* The text handed to json.loads for the reply content `content`.
Repair(raw) == BraceBalance(Cleanup(raw))

\* What call_llm prints on the way: the warning of the fallback branch, and
\* the number of closing braces it added.
Notices(raw) ==
    LET cleaned == Cleanup(raw)
        missing == Count(cleaned, "{") - Count(cleaned, "}")
    IN  (IF HasBracketPair(raw) THEN <<>> ELSE <<[msg |-> "no_brackets", n |-> 0]>>)
        \o (IF missing > 0 THEN <<[msg |-> "added_braces", n |-> missing]>> ELSE <<>>)

\* ------------------------------------------------------------------------
\* Python values.
\* ------------------------------------------------------------------------
None == [k |-> "null", v |-> 0]
PyBool(b) == [k |-> "bool", v |-> b]
PyInt(n) == [k |-> "int", v |-> n]
PyStrVal(t) == [k |-> "str", v |-> t]
PyList(items) == [k |-> "list", v |-> items]
PyDict(pairs) == [k |-> "dict", v |-> pairs]

\* key in d
HasKey(d, key) == \E n \in 1..Len(d.v) : d.v[n][1] = key

\* d.get(key): the value, or None when the key is absent.
DictGet(d, key) ==
    IF HasKey(d, key)
    THEN d.v[CHOOSE n \in 1..Len(d.v) : d.v[n][1] = key][2]
    ELSE None

\* d[key] = val: an existing key keeps its place, a new key goes last.
DictSet(d, key, val) ==
    IF HasKey(d, key)
    THEN PyDict([n \in 1..Len(d.v) |->
                    IF d.v[n][1] = key THEN <<key, val>> ELSE d.v[n]])
    ELSE PyDict(Append(d.v, <<key, val>>))

\* ------------------------------------------------------------------------
\* json.loads, as call_llm uses it: one JSON document, surrounded by optional
\* whitespace.  A parse step returns [ok, val, pos]: pos is the 1-based
\* index after the parsed text.  Numbers are integers; \u escapes, NaN and
\* Infinity are outside the model's replies.
\* ------------------------------------------------------------------------
JsonWhitespace == {" ", "\n", "\t", "\r"}
Digits == <<"0", "1", "2", "3", "4", "5", "6", "7", "8", "9">>
IsDigit(c) == \E n \in 1..10 : Digits[n] = c
DigitValue(c) == (CHOOSE n \in 1..10 : Digits[n] = c) - 1
ParseFail == [ok |-> FALSE, val |-> None, pos |-> 0]
ParseOk(val, pos) == [ok |-> TRUE, val |-> val, pos |-> pos]

RECURSIVE SkipWs(_, _)
SkipWs(s, at) ==
    IF at <= Len(s) /\ s[at] \in JsonWhitespace THEN SkipWs(s, at + 1) ELSE at

\* The body of a string, s[at] being the first character after the opening
\* quote; acc is the decoded text so far.
RECURSIVE ScanString(_, _, _)
ScanString(s, at, acc) ==
    IF at > Len(s) THEN ParseFail
    ELSE IF s[at] = DoubleQuote THEN ParseOk(acc, at + 1)
    ELSE IF s[at] \in {"\n", "\t", "\r"} THEN ParseFail
    ELSE IF s[at] = "\\"
         THEN IF at + 1 > Len(s) THEN ParseFail
              ELSE LET e == s[at + 1]
                   IN  IF e \in {DoubleQuote, "\\", "/"}
                       THEN ScanString(s, at + 2, Append(acc, e))
                       ELSE IF e = "n" THEN ScanString(s, at + 2, Append(acc, "\n"))
                       ELSE IF e = "t" THEN ScanString(s, at + 2, Append(acc, "\t"))
                       ELSE IF e = "r" THEN ScanString(s, at + 2, Append(acc, "\r"))
                       ELSE ParseFail
    ELSE ScanString(s, at + 1, Append(acc, s[at]))

\* The digits of a number from s[at] on; acc is the value so far.
RECURSIVE ScanDigits(_, _, _)
ScanDigits(s, at, acc) ==
    IF at <= Len(s) /\ IsDigit(s[at])
    THEN ScanDigits(s, at + 1, 10 * acc + DigitValue(s[at]))
    ELSE ParseOk(acc, at)

\* -?(0|[1-9][0-9]*)
ScanNumber(s, at) ==
    LET neg == at <= Len(s) /\ s[at] = "-"
        j == IF neg THEN at + 1 ELSE at
    IN  IF j > Len(s) \/ ~IsDigit(s[j]) THEN ParseFail
        ELSE LET d == IF s[j] = "0" THEN ParseOk(0, j + 1) ELSE ScanDigits(s, j, 0)
             IN  ParseOk(PyInt(IF neg THEN 0 - d.val ELSE d.val), d.pos)

RECURSIVE ParseValue(_, _)
RECURSIVE ParseArrayItems(_, _, _)
RECURSIVE ParseObjectItems(_, _, _)

\* The items of an array, s[at] being the start of an item; acc the items so
\* far.
ParseArrayItems(s, at, acc) ==
    LET item == ParseValue(s, at)
    IN  IF ~item.ok THEN ParseFail
        ELSE LET j == SkipWs(s, item.pos)
                 items == Append(acc, item.val)
             IN  IF j > Len(s) THEN ParseFail
                 ELSE IF s[j] = "]" THEN ParseOk(PyList(items), j + 1)
                 ELSE IF s[j] = "," THEN ParseArrayItems(s, SkipWs(s, j + 1), items)
                 ELSE ParseFail

\* The members of an object, s[at] being the start of a key; acc the dict so
\* far.
ParseObjectItems(s, at, acc) ==
    IF at > Len(s) \/ s[at] # DoubleQuote THEN ParseFail
    ELSE LET key == ScanString(s, at + 1, <<>>)
         IN  IF ~key.ok THEN ParseFail
             ELSE LET c == SkipWs(s, key.pos)
                  IN  IF c > Len(s) \/ s[c] # ":" THEN ParseFail
                      ELSE LET member == ParseValue(s, SkipWs(s, c + 1))
                           IN  IF ~member.ok THEN ParseFail
                               ELSE LET j == SkipWs(s, member.pos)
                                        d == DictSet(acc, key.val, member.val)
                                    IN  IF j > Len(s) THEN ParseFail
                                        ELSE IF s[j] = "}" THEN ParseOk(d, j + 1)
                                        ELSE IF s[j] = ","
                                             THEN ParseObjectItems(s, SkipWs(s, j + 1), d)
                                        ELSE ParseFail

\* One JSON value starting at s[at].
ParseValue(s, at) ==
    IF at > Len(s) THEN ParseFail
    ELSE IF s[at] = DoubleQuote
         THEN LET str == ScanString(s, at + 1, <<>>)
              IN  IF str.ok THEN ParseOk(PyStrVal(str.val), str.pos) ELSE ParseFail
    ELSE IF s[at] = "["
         THEN LET j == SkipWs(s, at + 1)
              IN  IF j <= Len(s) /\ s[j] = "]" THEN ParseOk(PyList(<<>>), j + 1)
                  ELSE ParseArrayItems(s, j, <<>>)
    ELSE IF s[at] = "{"
         THEN LET j == SkipWs(s, at + 1)
              IN  IF j <= Len(s) /\ s[j] = "}" THEN ParseOk(PyDict(<<>>), j + 1)
                  ELSE ParseObjectItems(s, j, PyDict(<<>>))
    ELSE IF StartsWith(SubSeq(s, at, Len(s)), <<"t", "r", "u", "e">>)
         THEN ParseOk(PyBool(TRUE), at + 4)
    ELSE IF StartsWith(SubSeq(s, at, Len(s)), <<"f", "a", "l", "s", "e">>)
         THEN ParseOk(PyBool(FALSE), at + 5)
    ELSE IF StartsWith(SubSeq(s, at, Len(s)), <<"n", "u", "l", "l">>)
         THEN ParseOk(None, at + 4)
    ELSE ScanNumber(s, at)

\* json.loads(s): [ok, val]; ok = FALSE stands for json.JSONDecodeError.
JsonLoads(s) ==
    LET r == ParseValue(s, SkipWs(s, 1))
    IN  IF r.ok /\ SkipWs(s, r.pos) > Len(s)
        THEN [ok |-> TRUE, val |-> r.val]
        ELSE [ok |-> FALSE, val |-> None]

\* ------------------------------------------------------------------------
\* str(output), as replace_prev_output applies it to the previous output.
\* ------------------------------------------------------------------------

\* The decimal digits of n >= 0.
RECURSIVE NatText(_)
NatText(n) ==
    IF n < 10 THEN <<Digits[n + 1]>>
    ELSE NatText(n \div 10) \o <<Digits[(n % 10) + 1]>>

IntText(n) == IF n < 0 THEN <<"-">> \o NatText(0 - n) ELSE NatText(n)

\* repr of a str: single quotes, unless the text has an apostrophe and no
\* double quote; the quote in use, the backslash and the control characters
\* are escaped.
ReprText(t) ==
    LET quote == IF (\E n \in 1..Len(t) : t[n] = Apostrophe)
                    /\ ~(\E n \in 1..Len(t) : t[n] = DoubleQuote)
                 THEN DoubleQuote ELSE Apostrophe
        Esc(c) == IF c = "\\" THEN <<"\\", "\\">>
                  ELSE IF c = quote THEN <<"\\", quote>>
                  ELSE IF c = "\n" THEN <<"\\", "n">>
                  ELSE IF c = "\t" THEN <<"\\", "t">>
                  ELSE IF c = "\r" THEN <<"\\", "r">>
                  ELSE <<c>>
        EscAll[n \in 0..Len(t)] == IF n = 0 THEN <<>> ELSE EscAll[n - 1] \o Esc(t[n])
    IN  <<quote>> \o EscAll[Len(t)] \o <<quote>>

\* sep.join(parts)
RECURSIVE Join(_, _)
Join(parts, sep) ==
    IF Len(parts) = 0 THEN <<>>
    ELSE IF Len(parts) = 1 THEN parts[1]
    ELSE parts[1] \o sep \o Join(Tail(parts), sep)

\* repr(v)
RECURSIVE PyRepr(_)
PyRepr(v) ==
    CASE v.k = "null" -> <<"N", "o", "n", "e">>
      [] v.k = "bool" -> IF v.v THEN <<"T", "r", "u", "e">> ELSE <<"F", "a", "l", "s", "e">>
      [] v.k = "int" -> IntText(v.v)
      [] v.k = "str" -> ReprText(v.v)
      [] v.k = "list" ->
            <<"[">> \o Join([n \in 1..Len(v.v) |-> PyRepr(v.v[n])], <<",", " ">>) \o <<"]">>
      [] v.k = "dict" ->
            <<"{">> \o Join([n \in 1..Len(v.v) |->
                                ReprText(v.v[n][1]) \o <<":", " ">> \o PyRepr(v.v[n][2])],
                            <<",", " ">>) \o <<"}">>

\* str(v)
PyStr(v) == IF v.k = "str" THEN v.v ELSE PyRepr(v)

\* ------------------------------------------------------------------------
\* call_llm: the plan compiler.
\* ------------------------------------------------------------------------
KeyApprentice == <<"a", "p", "p", "r", "e", "n", "t", "i", "c", "e">>
KeyPayload == <<"p", "a", "y", "l", "o", "a", "d">>

\* A validation without the test for the two keys.
ValidStructureNoKeys(parsed_json) ==
    /\ parsed_json.k = "list"
    /\ \A n \in 1..Len(parsed_json.v) : parsed_json.v[n].k = "dict"

\* A validation that takes a single mapping with the two keys for a plan.
ValidStructureOrOneStep(parsed_json) ==
    \/ /\ parsed_json.k = "dict"
       /\ HasKey(parsed_json, KeyApprentice) /\ HasKey(parsed_json, KeyPayload)
    \/ /\ parsed_json.k = "list"
       /\ \A n \in 1..Len(parsed_json.v) :
             /\ parsed_json.v[n].k = "dict"
             /\ HasKey(parsed_json.v[n], KeyApprentice)
             /\ HasKey(parsed_json.v[n], KeyPayload)

\* The checks on parsed_json; FALSE stands for the ValueError raised.
ValidStructure(parsed_json) ==
    /\ parsed_json.k = "list"
    /\ \A n \in 1..Len(parsed_json.v) :
          LET item == parsed_json.v[n]
          IN  /\ item.k = "dict"
              /\ HasKey(item, KeyApprentice) /\ HasKey(item, KeyPayload)

\* A compiler that falls back to a one-step plan when the model call fails.
call_llm_default_plan(answer) ==
    IF ~answer.ok
    THEN [plan |-> PyList(<<PyDict(<< <<KeyApprentice, PyStrVal(<<"x">>)>>,
                                      <<KeyPayload, PyDict(<<>>)>> >>)>>),
          raw |-> <<>>, cleaned |-> <<>>, notices |-> <<>>]
    ELSE LET raw == Strip(answer.content)
             cleaned == Repair(raw)
             parsed == JsonLoads(cleaned)
         IN  [plan |-> IF parsed.ok /\ ValidStructure(parsed.val)
                       THEN parsed.val ELSE None,
              raw |-> raw, cleaned |-> cleaned, notices |-> Notices(raw)]

\* call_llm(user_request) for the model's answer: answer.ok = FALSE stands
\* for ollama.chat raising; answer.content is response['message']['content'].
\* The result carries the returned plan (None for "return None") and the
\* two texts the function prints.
call_llm(answer) ==
    IF ~answer.ok
    THEN [plan |-> None, raw |-> <<>>, cleaned |-> <<>>, notices |-> <<>>]
    ELSE LET raw == Strip(answer.content)
             cleaned == Repair(raw)
             parsed == JsonLoads(cleaned)
         IN  [plan |-> IF parsed.ok /\ ValidStructure(parsed.val)
                       THEN parsed.val ELSE None,
              raw |-> raw, cleaned |-> cleaned, notices |-> Notices(raw)]

\* ------------------------------------------------------------------------
\* execute_step.
\* ------------------------------------------------------------------------
NamespacePrefix ==
    <<"a", "u", "r", "a", "_", "c", "o", "r", "e", ".",
      "a", "p", "p", "r", "e", "n", "t", "i", "c", "e", "s", ".">>
Sentinel == <<"$", "P", "R", "E", "V", "_", "O", "U", "T", "P", "U", "T">>

\* A truth test that only None fails ("is not None").
TruthyUnlessNone(v) == v.k # "null"

\* bool(v)
Truthy(v) ==
    CASE v.k = "null" -> FALSE
      [] v.k = "bool" -> v.v
      [] v.k = "int" -> v.v # 0
      [] OTHER -> Len(v.v) > 0

\* A substitution that walks mappings only: a list is passed through whole.
RECURSIVE replace_prev_output_dicts_only(_, _)
replace_prev_output_dicts_only(data_structure, output) ==
    CASE data_structure.k = "dict" ->
            PyDict([n \in 1..Len(data_structure.v) |->
                      <<data_structure.v[n][1],
                        replace_prev_output_dicts_only(data_structure.v[n][2], output)>>])
      [] data_structure.k = "str" /\ data_structure.v = Sentinel ->
            PyStrVal(IF output.k # "null" THEN PyStr(output) ELSE <<>>)
      [] OTHER -> data_structure

\* A substitution without the "is not None" test: always str(output).
RECURSIVE replace_prev_output_always_str(_, _)
replace_prev_output_always_str(data_structure, output) ==
    CASE data_structure.k = "dict" ->
            PyDict([n \in 1..Len(data_structure.v) |->
                      <<data_structure.v[n][1],
                        replace_prev_output_always_str(data_structure.v[n][2], output)>>])
      [] data_structure.k = "list" ->
            PyList([n \in 1..Len(data_structure.v) |->
                      replace_prev_output_always_str(data_structure.v[n], output)])
      [] data_structure.k = "str" /\ data_structure.v = Sentinel -> PyStrVal(PyStr(output))
      [] OTHER -> data_structure

\* A substitution that replaces the token inside longer strings as well
\* (str.replace instead of the comparison).
RECURSIVE replace_prev_output_in_text(_, _)
replace_prev_output_in_text(data_structure, output) ==
    CASE data_structure.k = "dict" ->
            PyDict([n \in 1..Len(data_structure.v) |->
                      <<data_structure.v[n][1],
                        replace_prev_output_in_text(data_structure.v[n][2], output)>>])
      [] data_structure.k = "list" ->
            PyList([n \in 1..Len(data_structure.v) |->
                      replace_prev_output_in_text(data_structure.v[n], output)])
      [] data_structure.k = "str" ->
            PyStrVal(Replace(data_structure.v, Sentinel,
                             IF output.k # "null" THEN PyStr(output) ELSE <<>>))
      [] OTHER -> data_structure

\* The nested function replace_prev_output(data_structure, output).
RECURSIVE replace_prev_output(_, _)
replace_prev_output(data_structure, output) ==
    CASE data_structure.k = "dict" ->
            PyDict([n \in 1..Len(data_structure.v) |->
                      <<data_structure.v[n][1],
                        replace_prev_output(data_structure.v[n][2], output)>>])
      [] data_structure.k = "list" ->
            PyList([n \in 1..Len(data_structure.v) |->
                      replace_prev_output(data_structure.v[n], output)])
      [] data_structure.k = "str" /\ data_structure.v = Sentinel ->
            PyStrVal(IF output.k # "null" THEN PyStr(output) ELSE <<>>)
      [] OTHER -> data_structure

\* The short names of the modules of the package aura_core.apprentices that
\* the model uses: two with a run function, and slide_creator, whose file
\* defines no run.  Every other name is no module of the package.
ModFileWriter == <<"f", "i", "l", "e", "_", "w", "r", "i", "t", "e", "r">>
ModFileReader == <<"f", "i", "l", "e", "_", "r", "e", "a", "d", "e", "r">>
ModSlideCreator ==
    <<"s", "l", "i", "d", "e", "_", "c", "r", "e", "a", "t", "o", "r">>
ModulesWithRun == {NamespacePrefix \o ModFileWriter, NamespacePrefix \o ModFileReader}
ModulesWithoutRun == {NamespacePrefix \o ModSlideCreator}

\* The tuple of failure markers and the tuple of success markers.
FailureMarkers == {<<"e", "r", "r", "o", "r", ":">>, <<CrossMark>>}
SuccessMarkers ==
    {<<"s", "u", "c", "c", "e", "s", "s", ":">>, <<CheckMark>>,
     <<"-", "-", "-", " ", "p", "r", "e", "s", "e", "n", "t", "a", "t", "i", "o", "n",
       " ", "s", "a", "v", "e", "d">>}

\* A classification that takes only a success marker for success.
ClassifyBySuccessMarker(output) ==
    output.k = "str" /\ \E m \in SuccessMarkers : StartsWith(Lower(Strip(output.v)), m)

\* The success flag execute_step returns with a value that run returned.
Classify(output) ==
    IF output.k = "str"
       /\ \E m \in FailureMarkers : StartsWith(Lower(Strip(output.v)), m)
    THEN FALSE
    ELSE IF output.k = "str"
            /\ \E m \in SuccessMarkers : StartsWith(Lower(Strip(output.v)), m)
    THEN TRUE
    ELSE TRUE

\* A normalisation that leaves the short name as it is.
NormalizeNot(module_name) == module_name

\* A normalisation that prepends the name of the top package only.
NormalizePackageOnly(module_name) ==
    <<"a", "u", "r", "a", "_", "c", "o", "r", "e", ".">> \o module_name

\* The short name is given: the full path is prepended.
Normalize(module_name) == NamespacePrefix \o module_name

\* The message of the ImportError handler.
MsgImportError(module_name) ==
    <<"E", "r", "r", "o", "r", ":", " ", "C", "o", "u", "l", "d", " ", "n", "o", "t", " ",
      "f", "i", "n", "d", " ", "m", "o", "d", "u", "l", "e", " ", Apostrophe>>
    \o module_name \o <<Apostrophe, ".">>

\* The message of the AttributeError handler.
MsgAttributeError(module_name, ae) ==
    <<"C", "r", "i", "t", "i", "c", "a", "l", " ", "e", "r", "r", "o", "r", ":", " ",
      "M", "o", "d", "u", "l", "e", " ", Apostrophe>>
    \o module_name
    \o <<Apostrophe, " ", "d", "o", "e", "s", " ", "n", "o", "t", " ", "h", "a", "v", "e", " ",
         "a", " ", Apostrophe, "r", "u", "n", Apostrophe, " ",
         "f", "u", "n", "c", "t", "i", "o", "n", ".", " ">>
    \o ae

\* The message of the Exception handler.
MsgException(module_name, e) ==
    <<"C", "r", "i", "t", "i", "c", "a", "l", " ", "e", "r", "r", "o", "r", " ",
      "e", "x", "e", "c", "u", "t", "i", "n", "g", " ">>
    \o module_name \o <<":", " ">> \o e

\* str(e) of the exceptions Python itself raises in the try block.
DetailNoModule(module_name) ==
    <<"N", "o", " ", "m", "o", "d", "u", "l", "e", " ", "n", "a", "m", "e", "d", " ",
      Apostrophe>> \o module_name \o <<Apostrophe>>
DetailNoRun(module_name) ==
    <<"m", "o", "d", "u", "l", "e", " ", Apostrophe>> \o module_name
    \o <<Apostrophe, " ", "h", "a", "s", " ", "n", "o", " ",
         "a", "t", "t", "r", "i", "b", "u", "t", "e", " ", Apostrophe, "r", "u", "n", Apostrophe>>

\* What execute_step does when the try block raises exc with str(e) = detail:
\* the three except clauses, in order.
Handler(exc, module_name, detail) ==
    CASE exc = "ImportError" -> PyStrVal(MsgImportError(module_name))
      [] exc = "AttributeError" -> PyStrVal(MsgAttributeError(module_name, detail))
      [] OTHER -> PyStrVal(MsgException(module_name, detail))

\* ------------------------------------------------------------------------
\* The two tools of the package that the model runs: file_writer.run and
\* file_reader.run.  io is what the file system does in the call: "ok",
\* "missing" (open raises FileNotFoundError), "mkdir_fails" (os.makedirs
\* raises) or "fails" (open or write raises another exception); found is the
\* text of the file that a successful read returns and detail the str() of
\* the exception the file system raises.
\* ------------------------------------------------------------------------
TxtFilename == <<"f", "i", "l", "e", "n", "a", "m", "e">>
TxtContent == <<"c", "o", "n", "t", "e", "n", "t">>
TxtAction == <<"a", "c", "t", "i", "o", "n">>
TxtWrite == <<"w", "r", "i", "t", "e">>
TxtAppend == <<"a", "p", "p", "e", "n", "d">>

\* type(v).__name__
PyTypeName(v) ==
    CASE v.k = "null" -> <<"N", "o", "n", "e", "T", "y", "p", "e">>
      [] v.k = "bool" -> <<"b", "o", "o", "l">>
      [] v.k = "int" -> <<"i", "n", "t">>
      [] v.k = "str" -> <<"s", "t", "r">>
      [] v.k = "list" -> <<"l", "i", "s", "t">>
      [] v.k = "dict" -> <<"d", "i", "c", "t">>

\* str(e) of the AttributeError of v.attr when v has no such attribute.
DetailNoAttribute(v, attr) ==
    <<Apostrophe>> \o PyTypeName(v)
    \o <<Apostrophe, " ", "o", "b", "j", "e", "c", "t", " ", "h", "a", "s", " ", "n",
            "o", " ", "a", "t", "t", "r", "i", "b", "u", "t", "e", " ", Apostrophe>>
    \o attr \o <<Apostrophe>>

\* str(e) of the TypeError of os.path.dirname(v) and open(v) for a v that is
\* no path.
DetailNoPath(v) ==
    <<"e", "x", "p", "e", "c", "t", "e", "d", " ", "s", "t", "r", ",", " ", "b", "y",
            "t", "e", "s", " ", "o", "r", " ", "o", "s", ".", "P", "a", "t", "h", "L", "i",
            "k", "e", " ", "o", "b", "j", "e", "c", "t", ",", " ", "n", "o", "t", " ">>
    \o PyTypeName(v)

\* os.path.dirname(filename): the text before the last "/".
Dirname(filename) ==
    LET slashes == {n \in 1..Len(filename) : filename[n] = "/"}
    IN  IF slashes = {} THEN <<>>
        ELSE LET last == CHOOSE n \in slashes : \A m \in slashes : m <= n
                 head == SubSeq(filename, 1, last - 1)
             IN  IF \A n \in 1..Len(head) : head[n] = "/" THEN SubSeq(filename, 1, last)
                 ELSE LET keep == CHOOSE n \in 1..Len(head) :
                                      head[n] # "/" /\ \A m \in (n + 1)..Len(head) : head[m] = "/"
                      IN  SubSeq(head, 1, keep)

\* What a call of run gives: a returned value, or an exception raised.
Returned(val) == [raises |-> FALSE, val |-> val, exc |-> "", detail |-> <<>>]
Raised(exc, detail) == [raises |-> TRUE, val |-> None, exc |-> exc, detail |-> detail]

\* file_writer.run(payload)
file_writer_run(payload, io, detail) ==
    IF payload.k # "dict"
    THEN Raised("AttributeError", DetailNoAttribute(payload, <<"g", "e", "t">>))
    ELSE
    LET filename == DictGet(payload, TxtFilename)
        content == DictGet(payload, TxtContent)
        given == IF HasKey(payload, TxtAction) THEN DictGet(payload, TxtAction)
                 ELSE PyStrVal(TxtWrite)
    IN  IF given.k # "str"
        THEN Raised("AttributeError", DetailNoAttribute(given, <<"l", "o", "w", "e", "r">>))
        ELSE
        LET action == Lower(given.v)
            FailedWith(e) ==
                Returned(PyStrVal(<<"E", "r", "r", "o", "r", ":", " ", "F", "a", "i", "l", "e", "d", " ", "t", "o",
            " ", "w", "r", "i", "t", "e", " ", "t", "o", " ", "f", "i", "l", "e", " ">>
                                  \o PyStr(filename)
                                  \o <<".", " ", "R", "e", "a", "s", "o", "n", ":", " ">>
                                  \o e))
        IN  IF ~Truthy(filename) \/ content.k = "null"
            THEN Returned(PyStrVal(<<"E", "r", "r", "o", "r", ":", " ", "M", "i", "s", "s", "i", "n", "g", " ",
            Apostrophe, "f", "i", "l", "e", "n", "a", "m", "e", Apostrophe, " ", "o", "r",
            " ", Apostrophe, "c", "o", "n", "t", "e", "n", "t", Apostrophe, " ", "i", "n",
            " ", "p", "a", "y", "l", "o", "a", "d", ".">>))
            ELSE IF action \notin {TxtWrite, TxtAppend}
            THEN Returned(PyStrVal(<<"E", "r", "r", "o", "r", ":", " ", "I", "n", "v", "a", "l", "i", "d", " ", "a",
            "c", "t", "i", "o", "n", " ", Apostrophe>>
                                   \o action
                                   \o <<Apostrophe, ".", " ", "U", "s", "e", " ", Apostrophe, "w", "r", "i", "t", "e",
            Apostrophe, " ", "o", "r", " ", Apostrophe, "a", "p", "p", "e", "n", "d",
            Apostrophe, ".">>))
            ELSE IF filename.k # "str"
            THEN FailedWith(DetailNoPath(filename))
            ELSE IF Dirname(filename.v) # <<>> /\ io = "mkdir_fails"
            THEN Returned(PyStrVal(<<"E", "r", "r", "o", "r", ":", " ", "C", "o", "u", "l", "d", " ", "n", "o", "t",
            " ", "c", "r", "e", "a", "t", "e", " ", "d", "i", "r", "e", "c", "t", "o", "r",
            "y", " ", Apostrophe>>
                                   \o Dirname(filename.v)
                                   \o <<Apostrophe, ".", " ", "R", "e", "a", "s", "o", "n", ":", " ">>
                                   \o detail))
            ELSE IF io \in {"missing", "fails"}
            THEN FailedWith(detail)
            ELSE IF content.k \in {"dict", "list"}
            THEN Returned(PyStrVal(<<"S", "u", "c", "c", "e", "s", "s", ":", " ", "W", "r", "o", "t", "e", " ", "J",
            "S", "O", "N", " ", "c", "o", "n", "t", "e", "n", "t", " ", "t", "o", " ">>
                                   \o filename.v))
            ELSE Returned(PyStrVal(<<"S", "u", "c", "c", "e", "s", "s", ":", " ", "W", "r", "o", "t", "e", " ">>
                                   \o NatText(Len(PyStr(content)))
                                   \o <<" ", "c", "h", "a", "r", "a", "c", "t", "e", "r", "s", " ", "t", "o", " ">>
                                   \o filename.v
                                   \o <<" ", "(", "m", "o", "d", "e", ":", " ">>
                                   \o action \o <<")", ".">>))

\* file_reader.run(payload)
file_reader_run(payload, io, found, detail) ==
    IF payload.k # "dict"
    THEN Raised("AttributeError", DetailNoAttribute(payload, <<"g", "e", "t">>))
    ELSE
    LET filename == DictGet(payload, TxtFilename)
        FailedWith(e) ==
            Returned(PyStrVal(<<"E", "r", "r", "o", "r", ":", " ", "F", "a", "i", "l", "e", "d", " ", "t", "o",
            " ", "r", "e", "a", "d", " ", "f", "i", "l", "e", " ">>
                              \o PyStr(filename)
                              \o <<".", " ", "R", "e", "a", "s", "o", "n", ":", " ">>
                              \o e))
    IN  IF ~Truthy(filename)
        THEN Returned(PyStrVal(<<"E", "r", "r", "o", "r", ":", " ", "M", "i", "s", "s", "i", "n", "g", " ",
            Apostrophe, "f", "i", "l", "e", "n", "a", "m", "e", Apostrophe, " ", "i", "n",
            " ", "p", "a", "y", "l", "o", "a", "d", ".">>))
        ELSE IF filename.k \in {"list", "dict"}
        THEN FailedWith(DetailNoPath(filename))
        ELSE IF io = "missing"
        THEN Returned(PyStrVal(<<"E", "r", "r", "o", "r", ":", " ", "F", "i", "l", "e", " ", "n", "o", "t", " ",
            "f", "o", "u", "n", "d", " ", "a", "t", " ">>
                               \o PyStr(filename)))
        ELSE IF io = "fails"
        THEN FailedWith(detail)
        ELSE Returned(PyStrVal(found))

\* apprentice_module.run(payload) for the module of that name.
run(name, payload, env) ==
    IF name = NamespacePrefix \o ModFileWriter
    THEN file_writer_run(payload, env.io, env.detail)
    ELSE file_reader_run(payload, env.io, env.val.v, env.detail)

\* A result of execute_step.  output and success are the returned pair;
\* raised = TRUE stands for an exception that leaves execute_step.  The other
\* fields record what happened: the step after the call (the code may
\* rewrite its "apprentice"), the module name and the payload the try block
\* used, whether run was called, where the outcome arose and, for an
\* exception, its class and its str().
StepResult(output, success, raised, step, name, payload, called, origin, exc, detail) ==
    [output |-> output, success |-> success, raised |-> raised, step |-> step,
     module_name |-> name, payload |-> payload, called |-> called,
     origin |-> origin, exc |-> exc, detail |-> detail]

\* execute_step(step, previous_output).  env is what the world outside the
\* function does when the module is imported and run:
\*   [stage |-> "import_raises", exc, detail]  the import of the module raises
\*   [stage |-> "run_raises", exc, detail]     run(payload) raises
\*   [stage |-> "run_returns", val]            run(payload) returns val
\*   [stage |-> "run_runs", io, val, detail]    run(payload) is the code of the
\*                                              module, on a file system that
\*                                              does io
\* (exc is a subclass of Exception: "ImportError", "AttributeError" or
\* "Exception" for any other one).
execute_step(step, previous_output, env) ==
    LET given == DictGet(step, KeyApprentice)
        payload0 == DictGet(step, KeyPayload)
    IN  IF Truthy(given) /\ given.k # "str"
        THEN \* module_name.startswith: AttributeError outside the try block
             StepResult(None, FALSE, TRUE, step, given, None, FALSE, "crash",
                        "AttributeError", <<>>)
        ELSE
        LET short == Truthy(given) /\ ~StartsWith(given.v, NamespacePrefix)
            module_name == IF short THEN PyStrVal(Normalize(given.v)) ELSE given
            step1 == IF short THEN DictSet(step, KeyApprentice, module_name) ELSE step
        IN  IF ~Truthy(module_name) \/ payload0.k = "null"
            THEN StepResult(None, FALSE, FALSE, step1, module_name, None, FALSE,
                            "invalid", "", <<>>)
            ELSE
            LET payload == replace_prev_output(payload0, previous_output)
                name == module_name.v
                Caught(origin, called, exc, detail) ==
                    StepResult(Handler(exc, name, detail), FALSE, FALSE, step1,
                               module_name, payload, called, origin, exc, detail)
            IN  IF name \notin (ModulesWithRun \cup ModulesWithoutRun)
                THEN Caught("unknown_tool", FALSE, "ImportError", DetailNoModule(name))
                ELSE IF env.stage = "import_raises"
                THEN Caught("import", FALSE, env.exc, env.detail)
                ELSE IF name \in ModulesWithoutRun
                THEN Caught("no_run", FALSE, "AttributeError", DetailNoRun(name))
                ELSE IF env.stage = "run_raises"
                THEN Caught("run", TRUE, env.exc, env.detail)
                ELSE
                LET ran == IF env.stage = "run_runs"
                           THEN run(name, payload, env)
                           ELSE Returned(env.val)
                IN  IF ran.raises
                    THEN Caught("run", TRUE, ran.exc, ran.detail)
                    ELSE StepResult(ran.val, Classify(ran.val), FALSE, step1, module_name,
                                    payload, TRUE, "returned", "", <<>>)

\* ------------------------------------------------------------------------
\* The inputs of a run: what the language model answers, and what the
\* modules do when they are imported and run.
\* ------------------------------------------------------------------------

\* Bound: the longest plan among the replies.
MaxPlanLen == 3

\* json.dumps-style text of a value, used to write the replies.
JsonTextOfStr(t) ==
    LET Esc(c) == IF c = "\\" THEN <<"\\", "\\">>
                  ELSE IF c = DoubleQuote THEN <<"\\", DoubleQuote>>
                  ELSE IF c = "\n" THEN <<"\\", "n">>
                  ELSE IF c = "\t" THEN <<"\\", "t">>
                  ELSE IF c = "\r" THEN <<"\\", "r">>
                  ELSE <<c>>
        EscAll[n \in 0..Len(t)] == IF n = 0 THEN <<>> ELSE EscAll[n - 1] \o Esc(t[n])
    IN  <<DoubleQuote>> \o EscAll[Len(t)] \o <<DoubleQuote>>

RECURSIVE JsonText(_)
JsonText(v) ==
    CASE v.k = "null" -> <<"n", "u", "l", "l">>
      [] v.k = "bool" -> IF v.v THEN <<"t", "r", "u", "e">> ELSE <<"f", "a", "l", "s", "e">>
      [] v.k = "int" -> IntText(v.v)
      [] v.k = "str" -> JsonTextOfStr(v.v)
      [] v.k = "list" ->
            <<"[">> \o Join([n \in 1..Len(v.v) |-> JsonText(v.v[n])], <<",", " ">>) \o <<"]">>
      [] v.k = "dict" ->
            <<"{">> \o Join([n \in 1..Len(v.v) |->
                                JsonTextOfStr(v.v[n][1]) \o <<":", " ">> \o JsonText(v.v[n][2])],
                            <<",", " ">>) \o <<"}">>

\* A step as the model writes it.
Step(tool, payload) == PyDict(<< <<KeyApprentice, tool>>, <<KeyPayload, payload>> >>)

TxtATxt == <<"a", ".", "t", "x", "t">>
TxtBTxt == <<"b", ".", "t", "x", "t">>
TxtOutTxt == <<"o", "u", "t", ".", "t", "x", "t">>
TxtWebSearcher == <<"w", "e", "b", "_", "s", "e", "a", "r", "c", "h", "e", "r">>

\* Payloads: a plain one, the nested one of the substitution example with a
\* sibling value, the writer's, one whose key and whose longer string contain
\* the token, a payload that is a list, and an empty mapping.
PayRead == PyDict(<< <<TxtFilename, PyStrVal(TxtATxt)>> >>)
PayNested ==
    PyDict(<< <<<<"a">>, PyList(<<PyStrVal(Sentinel),
                                  PyDict(<< <<<<"b">>, PyStrVal(Sentinel)>> >>)>>)>>,
              <<<<"n">>, PyInt(1)>> >>)
PayWrite ==
    PyDict(<< <<TxtFilename, PyStrVal(TxtOutTxt)>>, <<TxtContent, PyStrVal(Sentinel)>> >>)
PayOdd ==
    PyDict(<< <<Sentinel, PyStrVal(<<"x">> \o Sentinel)>>, <<<<"t">>, PyBool(TRUE)>>,
              <<<<"z">>, None>>, <<<<"e">>, PyDict(<<>>)>> >>)
PayList == PyList(<<PyStrVal(Sentinel), PyInt(2)>>)
PayEmpty == PyDict(<<>>)

ShortWriter == PyStrVal(ModFileWriter)
FullWriter == PyStrVal(NamespacePrefix \o ModFileWriter)
ShortReader == PyStrVal(ModFileReader)

\* The plans the model's replies hold.
SamplePlans ==
    { <<Step(ShortReader, PayRead), Step(ShortWriter, PayNested), Step(FullWriter, PayWrite)>>,
      <<Step(ShortWriter, PayWrite)>>,
      <<Step(FullWriter, PayWrite)>>,
      <<Step(ShortReader, PayRead), Step(PyStrVal(TxtWebSearcher), PayNested),
        Step(ShortWriter, PayWrite)>>,
      <<Step(PyStrVal(ModSlideCreator), PayEmpty), Step(ShortWriter, PayWrite)>>,
      <<Step(ShortReader, PayRead), Step(PyStrVal(<<>>), PayWrite), Step(ShortWriter, PayWrite)>>,
      <<Step(ShortWriter, None), Step(ShortReader, PayRead)>>,
      <<Step(None, PayRead)>>,
      <<Step(FullWriter, PayList), Step(PyInt(5), PayRead), Step(ShortReader, PayRead)>>,
      <<Step(ShortReader, PayRead), Step(ShortWriter, PayOdd)>>,
      <<Step(ShortReader, PayRead), Step(ShortWriter, PayNested), Step(FullWriter, PayWrite),
        Step(ShortWriter, PayOdd)>> }

\* What the language model answers: the text of a plan, an empty array, text
\* that is no JSON, or a failure of the call.
LlmError == [ok |-> FALSE, content |-> <<>>]
Answer(content) == [ok |-> TRUE, content |-> content]

\* Replies that parse but are no plan: a mapping, a list of a text, a step
\* without "payload" and a step without "apprentice".
TxtNotAList ==
    <<"{", DoubleQuote, "a", "p", "p", "r", "e", "n", "t", "i", "c", "e", DoubleQuote, ":",
      " ", DoubleQuote, "f", "i", "l", "e", "_", "w", "r", "i", "t", "e", "r", DoubleQuote,
      ",", " ", DoubleQuote, "p", "a", "y", "l", "o", "a", "d", DoubleQuote, ":", " ", "{",
      "}", "}">>
TxtNotADict ==
    <<"[", DoubleQuote, "f", "i", "l", "e", "_", "w", "r", "i", "t", "e", "r", DoubleQuote,
      "]">>
TxtNoPayload ==
    <<"[", "{", DoubleQuote, "a", "p", "p", "r", "e", "n", "t", "i", "c", "e", DoubleQuote,
      ":", " ", DoubleQuote, "f", "i", "l", "e", "_", "w", "r", "i", "t", "e", "r",
      DoubleQuote, "}", "]">>
TxtNoApprentice ==
    <<"[", "{", DoubleQuote, "p", "a", "y", "l", "o", "a", "d", DoubleQuote, ":", " ", "{",
      "}", "}", "]">>
MalformedReplies ==
    {Answer(TxtNotAList), Answer(TxtNotADict), Answer(TxtNoPayload), Answer(TxtNoApprentice)}

\* A reply in a code fence, with single quotes around its strings.
TxtFenced ==
    <<Backtick, Backtick, Backtick, "j", "s", "o", "n", "\n", "[", "{", Apostrophe, "a",
      "p", "p", "r", "e", "n", "t", "i", "c", "e", Apostrophe, ":", " ", Apostrophe, "f",
      "i", "l", "e", "_", "w", "r", "i", "t", "e", "r", Apostrophe, ",", " ", Apostrophe,
      "p", "a", "y", "l", "o", "a", "d", Apostrophe, ":", " ", "{", Apostrophe, "f", "i",
      "l", "e", "n", "a", "m", "e", Apostrophe, ":", " ", Apostrophe, "o", "u", "t", ".",
      "t", "x", "t", Apostrophe, ",", " ", Apostrophe, "c", "o", "n", "t", "e", "n", "t",
      Apostrophe, ":", " ", Apostrophe, "h", "i", Apostrophe, "}", "}", "]", "\n",
      Backtick, Backtick, Backtick>>
FencedReply == Answer(TxtFenced)

\* An empty array with prose before it.
TxtEmptyPlanInProse ==
    <<"N", "o", "t", "h", "i", "n", "g", " ", "t", "o", " ", "d", "o", ":", " ", "[", " ", "]">>

Replies ==
    {Answer(JsonText(PyList(p))) : p \in {q \in SamplePlans : Len(q) <= MaxPlanLen}}
    \cup {Answer(<<"[", "]">>), Answer(<<"h", "e", "l", "l", "o">>), LlmError}
    \cup MalformedReplies \cup {FencedReply, Answer(TxtEmptyPlanInProse)}

\* What a module does when it is imported and run.
ImportRaises(exc, detail) ==
    [stage |-> "import_raises", exc |-> exc, val |-> None, detail |-> detail, io |-> ""]
RunRaises(exc, detail) ==
    [stage |-> "run_raises", exc |-> exc, val |-> None, detail |-> detail, io |-> ""]
RunReturns(val) ==
    [stage |-> "run_returns", exc |-> "", val |-> val, detail |-> <<>>, io |-> ""]
RunRuns(io, found, detail) ==
    [stage |-> "run_runs", exc |-> "", val |-> PyStrVal(found), detail |-> detail, io |-> io]

TxtNoFitz ==
    <<"N", "o", " ", "m", "o", "d", "u", "l", "e", " ", "n", "a", "m", "e", "d", " ",
      Apostrophe, "f", "i", "t", "z", Apostrophe>>
TxtNoGet ==
    <<Apostrophe, "l", "i", "s", "t", Apostrophe, " ", "o", "b", "j", "e", "c", "t", " ",
      "h", "a", "s", " ", "n", "o", " ", "a", "t", "t", "r", "i", "b", "u", "t", "e", " ",
      Apostrophe, "g", "e", "t", Apostrophe>>
TxtDiskFull == <<"d", "i", "s", "k", " ", "f", "u", "l", "l">>
TxtNoSuchFile ==
    <<"[", "E", "r", "r", "n", "o", " ", "2", "]", " ", "N", "o", " ", "s", "u", "c", "h",
      " ", "f", "i", "l", "e", " ", "o", "r", " ", "d", "i", "r", "e", "c", "t", "o", "r",
      "y", ":", " ", Apostrophe, "a", ".", "t", "x", "t", Apostrophe>>

\* What the bundled modules return when they fail without a marker: the except
\* clause and the empty extraction of pdf_reader.run (the except clause of
\* summarizer.run returns a text of the same form), and get_file_info of
\* file_manager for a missing path.
TxtPdfReadError ==
    <<"E", "r", "r", "o", "r", " ", "r", "e", "a", "d", "i", "n", "g", " ", "P", "D",
      "F", " ", "f", "i", "l", "e", " ", Apostrophe, "a", ".", "p", "d", "f", Apostrophe,
      ".", " ", "R", "e", "a", "s", "o", "n", ":", " ", "d", "i", "s", "k", " ", "f",
      "u", "l", "l">>
TxtPdfNoText ==
    <<"W", "a", "r", "n", "i", "n", "g", ":", " ", "N", "o", " ", "t", "e", "x", "t",
      " ", "c", "o", "u", "l", "d", " ", "b", "e", " ", "e", "x", "t", "r", "a", "c",
      "t", "e", "d", " ", "f", "r", "o", "m", " ", Apostrophe, "a", ".", "p", "d", "f",
      Apostrophe, " ", "(", "p", "a", "g", "e", "s", ":", " ", "a", "l", "l", ")", ".">>
FileInfoError ==
    PyDict(<< <<<<"e", "r", "r", "o", "r">>,
               PyStrVal(<<"P", "a", "t", "h", " ", "d", "o", "e", "s", " ", "n", "o", "t", " ",
                          "e", "x", "i", "s", "t", ".">>)>> >>)
ReportedFailures ==
    {PyStrVal(TxtPdfReadError), PyStrVal(TxtPdfNoText), FileInfoError}

\* The values run returns in the model.  The classification does not look
\* at the module, so each value is returned by the steps of the plans above.
Outputs ==
    { PyStrVal(<<"S", "u", "c", "c", "e", "s", "s", ":", " ", "o", "k">>),
      PyStrVal(<<"E", "r", "r", "o", "r", ":", " ", "n", "o", " ", "f", "i", "l", "e">>),
      PyStrVal(<<" ", " ", "E", "R", "R", "O", "R", ":", " ", "x">>),
      PyStrVal(<<CrossMark, " ", "f", "a", "i", "l", "e", "d">>),
      PyStrVal(<<CheckMark, " ", "d", "o", "n", "e">>),
      PyStrVal(TxtPdfReadError), PyStrVal(TxtPdfNoText),
      PyStrVal(<<"X">>),
      PyList(<<PyStrVal(TxtATxt), PyStrVal(TxtBTxt)>>),
      FileInfoError,
      PyInt(7),
      None }

Behaviours ==
    {RunReturns(v) : v \in Outputs}
    \cup {RunRaises("ImportError", TxtNoFitz), RunRaises("AttributeError", TxtNoGet),
          RunRaises("Exception", TxtDiskFull), ImportRaises("ImportError", TxtNoFitz)}
    \cup {RunRuns("ok", <<"h", "i">>, <<>>), RunRuns("missing", <<>>, TxtNoSuchFile),
          RunRuns("fails", <<>>, TxtDiskFull)}

\* ------------------------------------------------------------------------
\* handle_request.
\* ------------------------------------------------------------------------
Printed(msg, step, output) == [msg |-> msg, step |-> step, output |-> output]

Init ==
    /\ reply \in Replies
    /\ pc = "start"
    /\ raw_output = <<>>
    /\ json_plan_str = <<>>
    /\ plan = None
    /\ i = 0
    /\ previous_step_output = None
    /\ all_steps_succeeded = TRUE
    /\ console = <<>>
    /\ notices = <<>>
    /\ trace = <<>>

\* plan = call_llm(user_request); if not plan: ... return; the loop's
\* variables are set.
CallLLM ==
    /\ pc = "start"
    /\ LET r == call_llm(reply)
       IN  /\ raw_output' = r.raw
           /\ json_plan_str' = r.cleaned
           /\ plan' = r.plan
           /\ notices' = r.notices
           /\ IF ~Truthy(r.plan)
              THEN /\ pc' = "returned"
                   /\ console' = Append(console, Printed("no_plan", 0, None))
              ELSE /\ pc' = "loop"
                   /\ console' = console
    /\ UNCHANGED <<reply, i, previous_step_output, all_steps_succeeded, trace>>

\* A loop that never takes the "if not success:" branch.
StepFailedNever(success) == FALSE

\* "if not success:" after execute_step.
StepFailed(success) == ~success

\* A loop that keeps the first output it got for all later steps.
UpdatedPreviousKeepsFirst(previous, output) == IF previous = None THEN output ELSE previous

\* "previous_step_output = output" at the end of an iteration.
UpdatedPrevious(previous, output) == output

\* A loop that runs the same step again after it succeeded.
NextIndexRetries(index) == index

\* enumerate(plan): the index of the next iteration.
NextIndex(index) == index + 1

\* A step that keeps the substituted payload in the plan as well.
StoredStepWithPayload(res) ==
    IF res.payload.k = "null" THEN res.step
    ELSE DictSet(res.step, KeyPayload, res.payload)

\* The step the plan holds after execute_step: step["apprentice"] may have
\* been assigned; the substituted payload is a new value bound to the local
\* name payload, the one under step["payload"] is not written.
StoredStep(res) == res.step

\* One iteration of "for i, step in enumerate(plan)".
LoopStep(env) ==
    /\ pc = "loop"
    /\ all_steps_succeeded
    /\ i < Len(plan.v)
    /\ LET step == plan.v[i + 1]
           res == execute_step(step, previous_step_output, env)
       IN  /\ trace' = Append(trace, [index |-> i + 1, step0 |-> step,
                                       prev |-> previous_step_output,
                                       env |-> env, res |-> res])
           /\ plan' = PyList([plan.v EXCEPT ![i + 1] = StoredStep(res)])
           /\ IF res.raised
              THEN /\ pc' = "crashed"
                   /\ UNCHANGED <<i, previous_step_output, all_steps_succeeded, console>>
              ELSE IF StepFailed(res.success)
              THEN /\ console' = Append(console, Printed("step_failed", i + 1, res.output))
                   /\ all_steps_succeeded' = FALSE
                   /\ UNCHANGED <<pc, i, previous_step_output>>
              ELSE /\ previous_step_output' = UpdatedPrevious(previous_step_output, res.output)
                   /\ i' = NextIndex(i)
                   /\ UNCHANGED <<pc, all_steps_succeeded, console>>
    /\ UNCHANGED <<reply, raw_output, json_plan_str, notices>>

\* A final message that is always the one of success.
FinalMessageCompleted(succeeded) == "completed"

\* "if all_steps_succeeded: ... else: ..." after the loop.
FinalMessage(succeeded) == IF succeeded THEN "completed" ELSE "failed"

\* A loop that is left only when the plan is exhausted.
LoopOverWhenExhausted(index, length, succeeded) == index = length

\* The for loop is over: the plan is exhausted, or "break" was taken.
LoopOver(index, length, succeeded) == index = length \/ ~succeeded

\* The end of the loop (exhausted, or left by break) and the final message.
Finish ==
    /\ pc = "loop"
    /\ LoopOver(i, Len(plan.v), all_steps_succeeded)
    /\ console' = Append(console, Printed(FinalMessage(all_steps_succeeded), 0, None))
    /\ pc' = "returned"
    /\ UNCHANGED <<reply, raw_output, json_plan_str, plan, i, previous_step_output,
                   all_steps_succeeded, notices, trace>>

Next ==
    \/ CallLLM
    \/ \E env \in Behaviours : LoopStep(env)
    \/ Finish

Spec == Init /\ [][Next]_vars

\* The loop of handle_request on its own: the state when call_llm has
\* returned a plan and the loop's variables are set, and the steps from
\* there.  handle_request runs on one thread from its call to its return,
\* so a step that can be taken is taken.
InitLoop ==
    /\ reply \in {r \in Replies : Truthy(call_llm(r).plan)}
    /\ pc = "loop"
    /\ raw_output = call_llm(reply).raw
    /\ json_plan_str = call_llm(reply).cleaned
    /\ plan = call_llm(reply).plan
    /\ notices = call_llm(reply).notices
    /\ i = 0
    /\ previous_step_output = None
    /\ all_steps_succeeded = TRUE
    /\ console = <<>>
    /\ trace = <<>>

NextLoop ==
    \/ \E env \in Behaviours : LoopStep(env)
    \/ Finish

\* The guard of LoopStep(env) is the same for every env, so the iteration is
\* enabled for one behaviour of the tool exactly when it is for all of them:
\* the fairness of the iteration is stated for the tool that returns None.
SpecLive ==
    /\ InitLoop
    /\ [][NextLoop]_vars
    /\ WF_vars(LoopStep(RunReturns(None)))
    /\ WF_vars(Finish)

\* ------------------------------------------------------------------------
\* The repair of call_llm on its own: every short text over the brackets and
\* braces, and plans whose string content holds the characters the cleanup
\* rules rewrite.
\* ------------------------------------------------------------------------

\* Bound: the longest generated reply.
MaxRawLen == 5

RawAlphabet == {"[", "]", "{", "}"}
GeneratedTexts == UNION {[1..n -> RawAlphabet] : n \in 0..MaxRawLen}

PayContent(text) == PyDict(<< <<TxtContent, PyStrVal(text)>> >>)
QuotedPlans ==
    { <<Step(ShortWriter, PayContent(<<"i", "t", Apostrophe, "s">>))>>,
      <<Step(ShortWriter, PayContent(<<"a", " ", "*", "*", "b", "*", "*">>))>>,
      <<Step(ShortWriter, PayContent(<<"x", ":", " ", "T", "r", "u", "e">>))>>,
      <<Step(ShortWriter, PayContent(<<Backtick, Backtick, Backtick, "l", "s">>))>>,
      <<Step(ShortWriter, PayContent(<<"p", "l", "a", "i", "n">>))>> }

\* The text of a one-step plan, as json.dumps writes it.
TxtPlanOfOne ==
    <<"[", "{", DoubleQuote, "a", "p", "p", "r", "e", "n", "t", "i", "c", "e",
      DoubleQuote, ":", " ", DoubleQuote, "f", "i", "l", "e", "_", "r", "e", "a", "d",
      "e", "r", DoubleQuote, ",", " ", DoubleQuote, "p", "a", "y", "l", "o", "a", "d",
      DoubleQuote, ":", " ", "{", DoubleQuote, "f", "i", "l", "e", "n", "a", "m", "e",
      DoubleQuote, ":", " ", DoubleQuote, "a", ".", "t", "x", "t", DoubleQuote, "}", "}",
      "]">>

\* Prose that a model puts around the array.
TxtProseBefore ==
    <<"S", "u", "r", "e", ",", " ", "h", "e", "r", "e", " ", "i", "s", " ", "t", "h",
      "e", " ", "p", "l", "a", "n", ":", "\n">>

TxtProseAfter ==
    <<"\n", "L", "e", "t", " ", "m", "e", " ", "k", "n", "o", "w", " ", "i", "f", " ",
      "i", "t", " ", "h", "e", "l", "p", "s", ".">>

\* Replies without a bracket pair that hold a code fence or emphasis markers.
TxtFencedObject ==
    <<Backtick, Backtick, Backtick, "j", "s", "o", "n", "\n", "{", DoubleQuote, "a",
      DoubleQuote, ":", " ", "1", "}", "\n", Backtick, Backtick, Backtick>>

TxtEmphasis ==
    <<"*", "*", "P", "l", "a", "n", "*", "*", ":", " ", "n", "o", "n", "e">>

\* A fence that the removal of the emphasis marker puts together.
TxtFenceFromEmphasis ==
    <<"[", Backtick, Backtick, "*", "*", Backtick, "]">>

\* Replies with the literals of Python.
TxtLiterals ==
    <<"[", "{", DoubleQuote, "a", "p", "p", "r", "e", "n", "t", "i", "c", "e",
      DoubleQuote, ":", " ", DoubleQuote, "f", "i", "l", "e", "_", "w", "r", "i", "t",
      "e", "r", DoubleQuote, ",", " ", DoubleQuote, "p", "a", "y", "l", "o", "a", "d",
      DoubleQuote, ":", " ", "{", DoubleQuote, "a", DoubleQuote, ":", " ", "T", "r", "u",
      "e", ",", " ", DoubleQuote, "b", DoubleQuote, ":", " ", "[", "F", "a", "l", "s",
      "e", ",", " ", "N", "o", "n", "e", "]", ",", " ", DoubleQuote, "c", DoubleQuote,
      ":", " ", "N", "o", "n", "e", "}", "}", "]">>

TxtLiteralNoSpace ==
    <<"[", "{", DoubleQuote, "a", "p", "p", "r", "e", "n", "t", "i", "c", "e",
      DoubleQuote, ":", " ", DoubleQuote, "f", "i", "l", "e", "_", "w", "r", "i", "t",
      "e", "r", DoubleQuote, ",", " ", DoubleQuote, "p", "a", "y", "l", "o", "a", "d",
      DoubleQuote, ":", " ", "{", DoubleQuote, "a", DoubleQuote, ":", "T", "r", "u", "e",
      "}", "}", "]">>

TxtLongerWord ==
    <<"[", "{", DoubleQuote, "a", "p", "p", "r", "e", "n", "t", "i", "c", "e",
      DoubleQuote, ":", " ", DoubleQuote, "f", "i", "l", "e", "_", "w", "r", "i", "t",
      "e", "r", DoubleQuote, ",", " ", DoubleQuote, "p", "a", "y", "l", "o", "a", "d",
      DoubleQuote, ":", " ", "{", DoubleQuote, "a", DoubleQuote, ":", " ", DoubleQuote,
      "x", ":", " ", "T", "r", "u", "e", "i", "s", "h", ",", " ", "N", "o", "n", "e",
      "s", "u", "c", "h", DoubleQuote, "}", "}", "]">>

TxtLiteralsNoBrackets ==
    <<"{", DoubleQuote, "a", DoubleQuote, ":", " ", "T", "r", "u", "e", ",", " ",
      DoubleQuote, "b", DoubleQuote, ":", " ", "F", "a", "l", "s", "e", ",", " ",
      DoubleQuote, "c", DoubleQuote, ":", " ", "N", "o", "n", "e", "}", ",", " ", "T",
      "r", "u", "e", ",", " ", "F", "a", "l", "s", "e", ",", " ", "N", "o", "n", "e">>

\* A plan whose first step lacks its closing brace.
TxtMissingBrace ==
    <<"[", "{", DoubleQuote, "a", "p", "p", "r", "e", "n", "t", "i", "c", "e",
      DoubleQuote, ":", " ", DoubleQuote, "f", "i", "l", "e", "_", "r", "e", "a", "d",
      "e", "r", DoubleQuote, ",", " ", DoubleQuote, "p", "a", "y", "l", "o", "a", "d",
      DoubleQuote, ":", " ", "{", DoubleQuote, "f", "i", "l", "e", "n", "a", "m", "e",
      DoubleQuote, ":", " ", DoubleQuote, "a", ".", "t", "x", "t", DoubleQuote, "}", ",",
      " ", "{", DoubleQuote, "a", "p", "p", "r", "e", "n", "t", "i", "c", "e",
      DoubleQuote, ":", " ", DoubleQuote, "f", "i", "l", "e", "_", "w", "r", "i", "t",
      "e", "r", DoubleQuote, ",", " ", DoubleQuote, "p", "a", "y", "l", "o", "a", "d",
      DoubleQuote, ":", " ", "{", "}", "}", "]">>

\* The replies cut off by a token limit: the proper prefixes of the one-step
\* plan that end inside an object.
TruncatedTexts ==
    {SubSeq(TxtPlanOfOne, 1, n) : n \in {m \in 1..(Len(TxtPlanOfOne) - 1) :
        Count(SubSeq(TxtPlanOfOne, 1, m), "{") > Count(SubSeq(TxtPlanOfOne, 1, m), "}")}}

WrappedTexts ==
    {TxtProseBefore \o TxtPlanOfOne \o TxtProseAfter, TxtProseBefore \o TxtPlanOfOne,
     TxtPlanOfOne \o TxtProseAfter, TxtProseBefore \o TxtFenced \o TxtProseAfter}

MarkerTexts == {TxtFencedObject, TxtEmphasis, TxtFenceFromEmphasis}

LiteralTexts == {TxtLiterals, TxtLiteralNoSpace, TxtLongerWord, TxtLiteralsNoBrackets}

RepairReplies ==
    {Answer(t) : t \in GeneratedTexts}
    \cup {Answer(JsonText(PyList(p))) : p \in QuotedPlans}
    \cup {Answer(t) : t \in TruncatedTexts \cup WrappedTexts \cup MarkerTexts \cup LiteralTexts
                              \cup {TxtMissingBrace, TxtPlanOfOne, TxtNotAList}}

InitRepair ==
    /\ reply \in RepairReplies
    /\ pc = "start"
    /\ raw_output = <<>>
    /\ json_plan_str = <<>>
    /\ plan = None
    /\ i = 0
    /\ previous_step_output = None
    /\ all_steps_succeeded = TRUE
    /\ console = <<>>
    /\ notices = <<>>
    /\ trace = <<>>

NextRepair == CallLLM

SpecRepair == InitRepair /\ [][NextRepair]_vars

\* ------------------------------------------------------------------------
\* Properties of the repair (checked under SpecRepair).
\* ------------------------------------------------------------------------

\* The part of the reply the cleanup works on: from the first '[' to the
\* last ']' when a '[' comes before a ']', the whole reply otherwise.
BracketSpan(raw) ==
    LET opens == {n \in 1..Len(raw) : raw[n] = "["}
        closes == {n \in 1..Len(raw) : raw[n] = "]"}
    IN  IF \E a \in opens : \E b \in closes : a < b
        THEN SubSeq(raw, CHOOSE a \in opens : \A x \in opens : a <= x,
                         CHOOSE b \in closes : \A x \in closes : x <= b)
        ELSE raw

Balanced(text) == Count(text, "{") = Count(text, "}")

\* C7, as stated: for any model reply whose text has more '{' than '}', the
\* text handed to the JSON parser has equal counts of '{' and '}'.
C7_BraceBalanceOfReply ==
    (pc # "start" /\ reply.ok /\ Count(reply.content, "{") > Count(reply.content, "}"))
        => Balanced(json_plan_str)

\* C7, amended: for any model reply whose bracket span (the text from the
\* first '[' to the last ']', or the whole reply when there is no such pair)
\* has more '{' than '}', the text handed to the JSON parser has equal counts
\* of '{' and '}'.
C7_BraceBalanceOfSpan ==
    (pc # "start" /\ reply.ok
        /\ Count(BracketSpan(Strip(reply.content)), "{")
              > Count(BracketSpan(Strip(reply.content)), "}"))
        => Balanced(json_plan_str)

\* C7 witness: a reply whose span lacks two '}' has been repaired.
C7_Witness ==
    /\ pc # "start" /\ reply.ok
    /\ Count(BracketSpan(Strip(reply.content)), "{")
          = Count(BracketSpan(Strip(reply.content)), "}") + 2
    /\ Len(json_plan_str) = Len(BracketSpan(Strip(reply.content))) + 2

\* TRUE when the text is JSON that passes call_llm's structural checks.
IsValidPlanText(text) == JsonLoads(text).ok /\ ValidStructure(JsonLoads(text).val)

\* C8, as stated: for every reply that is already a valid JSON plan, the
\* repair returns JSON equal to the input, and repairing the result again
\* returns the same JSON.
C8_RepairKeepsValidJson ==
    (pc # "start" /\ reply.ok /\ IsValidPlanText(reply.content))
        => /\ JsonLoads(json_plan_str) = JsonLoads(reply.content)
           /\ JsonLoads(Repair(json_plan_str)) = JsonLoads(reply.content)

\* ------------------------------------------------------------------------
\* Properties of the step executor (checked under Spec).
\* ------------------------------------------------------------------------

\* The last thing printed about the run ("" when nothing was printed).
Reported == IF Len(console) = 0 THEN "" ELSE console[Len(console)].msg

\* The step was classified Failed: execute_step returned success = False.
FailedEntry(e) == ~e.res.raised /\ ~e.res.success

\* The substitution ran in this call of execute_step.
Substituted(e) == e.res.origin \notin {"crash", "invalid"}

\* C1: Fail-fast: if step i is classified Failed, the run ends as Failed at
\* step i (the halt message names step i and its output, the final message is
\* the one of failure) and execute_step is never called for a later step.
C1_FailFast ==
    \A n \in 1..Len(trace) :
        FailedEntry(trace[n]) =>
            /\ n = Len(trace)
            /\ pc \in {"loop", "returned"}
            /\ ~all_steps_succeeded
            /\ console[1] = Printed("step_failed", trace[n].index, trace[n].res.output)
            /\ pc = "returned" => (Len(console) = 2 /\ Reported = "failed")
            /\ \A m \in 1..Len(console) : console[m].msg # "completed"

\* C1 witness: a 3-step plan whose step 2 returned a text with an error
\* marker; the run is over and step 3 was never started.
C1_Witness ==
    /\ pc = "returned" /\ plan.k = "list" /\ Len(plan.v) = 3 /\ Len(trace) = 2
    /\ trace[2].res.origin = "returned" /\ trace[2].res.called
    /\ trace[2].res.output.k = "str"
    /\ StartsWith(trace[2].res.output.v, <<"E", "r", "r", "o", "r", ":">>)
    /\ console[1].step = 2 /\ Reported = "failed"

\* Every step names its tool by a text (or leaves it out).
ToolsAreText ==
    \A n \in 1..Len(plan.v) :
        DictGet(plan.v[n], KeyApprentice).k \in {"str", "null"}

\* Every step of the plan was executed, in order, and none was classified
\* Failed.
AllStepsRanAndSucceeded ==
    /\ Len(trace) = Len(plan.v)
    /\ \A n \in 1..Len(trace) : trace[n].index = n /\ trace[n].res.success

\* C2: for a plan whose tool identifiers are texts, the run always comes to
\* its report; it is reported Completed if and only if every step was
\* executed, in order, and none was classified Failed, and otherwise it is
\* reported Failed.
C2_CompletedIffAllSucceeded ==
    /\ (pc = "crashed" => ~ToolsAreText)
    /\ (pc = "returned" /\ Truthy(plan)) =>
          /\ Reported \in {"completed", "failed"}
          /\ (Reported = "completed") <=> AllStepsRanAndSucceeded

\* C2 witness: a 3-step run reported Completed, and (in another state) a run
\* reported Failed, are both reachable; this one is the completed run.
C2_Witness ==
    /\ pc = "returned" /\ plan.k = "list" /\ Len(plan.v) = 3
    /\ Len(trace) = 3 /\ Reported = "completed"

\* after is before with every value equal to the token replaced by text, and
\* with every other value, every key and every shape as in before.
RECURSIVE SubstitutionOf(_, _, _)
SubstitutionOf(before, after, text) ==
    IF before.k = "dict"
    THEN /\ after.k = "dict" /\ Len(after.v) = Len(before.v)
         /\ \A n \in 1..Len(before.v) :
               /\ after.v[n][1] = before.v[n][1]
               /\ SubstitutionOf(before.v[n][2], after.v[n][2], text)
    ELSE IF before.k = "list"
    THEN /\ after.k = "list" /\ Len(after.v) = Len(before.v)
         /\ \A n \in 1..Len(before.v) : SubstitutionOf(before.v[n], after.v[n], text)
    ELSE IF before.k = "str" /\ before.v = Sentinel
    THEN after.k = "str" /\ after.v = text
    ELSE after = before

\* C3, as stated: on a step that has a previous output X, the payload handed
\* on is the step's payload with every token value replaced by the string
\* form of X, all else unchanged.
C3_SubstitutionByStringForm ==
    \A n \in 1..Len(trace) :
        (trace[n].index > 1 /\ Substituted(trace[n])) =>
            SubstitutionOf(DictGet(trace[n].step0, KeyPayload), trace[n].res.payload,
                           PyStr(trace[n].prev))

\* C3, amended: on a step that has a previous output X, every token value is
\* replaced by the string form of X, or by the empty string when X is
\* null/None; every other value, every key and every shape are unchanged.
C3_SubstitutionDepth ==
    \A n \in 1..Len(trace) :
        (trace[n].index > 1 /\ Substituted(trace[n])) =>
            SubstitutionOf(DictGet(trace[n].step0, KeyPayload), trace[n].res.payload,
                           IF trace[n].prev.k = "null" THEN <<>> ELSE PyStr(trace[n].prev))

\* C3 witness: the example: {"a": ["$PREV_OUTPUT", {"b": "$PREV_OUTPUT"}]}
\* (with a sibling "n": 1) and the previous output "X".
C3_Witness ==
    /\ Len(trace) >= 2
    /\ DictGet(trace[2].step0, KeyPayload) = PayNested
    /\ trace[2].prev = PyStrVal(<<"X">>)
    /\ trace[2].res.called
    /\ trace[2].res.payload =
          PyDict(<< <<<<"a">>, PyList(<<PyStrVal(<<"X">>),
                                        PyDict(<< <<<<"b">>, PyStrVal(<<"X">>)>> >>)>>)>>,
                    <<<<"n">>, PyInt(1)>> >>)

\* Some value of v (v itself, a mapping value or a list element, at any
\* depth) is the token.
RECURSIVE HasSentinelValue(_)
HasSentinelValue(v) ==
    IF v.k = "dict" THEN \E n \in 1..Len(v.v) : HasSentinelValue(v.v[n][2])
    ELSE IF v.k = "list" THEN \E n \in 1..Len(v.v) : HasSentinelValue(v.v[n])
    ELSE v.k = "str" /\ v.v = Sentinel

\* C4: on the first step there is no previous output, and every token value
\* of its payload is replaced by the empty string: the payload handed to the
\* capability holds no token value.
C4_FirstStepSubstitution ==
    \A n \in 1..Len(trace) :
        (trace[n].index = 1 /\ Substituted(trace[n])) =>
            /\ trace[n].prev = None
            /\ SubstitutionOf(DictGet(trace[n].step0, KeyPayload), trace[n].res.payload,
                              <<>>)
            /\ ~HasSentinelValue(trace[n].res.payload)

\* C4 witness: a first step whose payload holds the token was run.
C4_Witness ==
    /\ Len(trace) >= 1
    /\ trace[1].index = 1 /\ trace[1].res.called
    /\ HasSentinelValue(DictGet(trace[1].step0, KeyPayload))
    /\ DictGet(trace[1].res.payload, TxtContent) = PyStrVal(<<>>)

\* The text starts with a failure marker or a success marker.
HasMarker(text) ==
    \E m \in FailureMarkers \cup SuccessMarkers : StartsWith(Lower(Strip(text)), m)

\* C5: a returned value that is not text, or is text with neither marker, is
\* classified Succeeded, and the run goes on: the value becomes the previous
\* output and the next step (if the plan has one) is the next to run.
C5_DefaultSuccess ==
    \A n \in 1..Len(trace) :
        LET e == trace[n]
        IN  (e.res.origin = "returned"
                /\ (e.res.output.k # "str" \/ ~HasMarker(e.res.output.v))) =>
               /\ e.res.success
               /\ all_steps_succeeded \/ n < Len(trace)
               /\ IF n < Len(trace)
                  THEN trace[n + 1].index = e.index + 1 /\ trace[n + 1].prev = e.res.output
                  ELSE /\ i = e.index /\ previous_step_output = e.res.output
                       /\ pc = "returned" => (e.index = Len(plan.v) /\ Reported = "completed")

\* C5 witness: a step returned the list ["a.txt", "b.txt"] and the next step
\* was run with it.
C5_Witness ==
    /\ Len(trace) >= 2
    /\ trace[1].res.output = PyList(<<PyStrVal(TxtATxt), PyStrVal(TxtBTxt)>>)
    /\ trace[1].res.success
    /\ trace[2].prev = PyList(<<PyStrVal(TxtATxt), PyStrVal(TxtBTxt)>>)

\* The short names of the registered tools.
RegisteredShortNames == {ModFileWriter, ModFileReader, ModSlideCreator}

\* C6: a step whose tool identifier is the short name of a registered tool
\* resolves to the same module, hands on the same payload and yields the same
\* outcome as the same step with the fully namespaced identifier.
C6_ShortNameNormalization ==
    \A n \in 1..Len(trace) :
        LET e == trace[n]
            tool == DictGet(e.step0, KeyApprentice)
        IN  (tool.k = "str" /\ tool.v \in RegisteredShortNames) =>
               LET full == PyStrVal(<<"a", "u", "r", "a", "_", "c", "o", "r", "e", ".",
                                      "a", "p", "p", "r", "e", "n", "t", "i", "c", "e", "s",
                                      ".">> \o tool.v)
                   r == execute_step(DictSet(e.step0, KeyApprentice, full), e.prev, e.env)
               IN  /\ e.res.module_name = full
                   /\ r.module_name = e.res.module_name
                   /\ r.called = e.res.called
                   /\ r.payload = e.res.payload
                   /\ r.output = e.res.output
                   /\ r.success = e.res.success
                   /\ r.raised = e.res.raised

\* C6 witness: a step named by the short name file_writer was run and
\* succeeded.
C6_Witness ==
    \E n \in 1..Len(trace) :
        /\ DictGet(trace[n].step0, KeyApprentice) = PyStrVal(ModFileWriter)
        /\ trace[n].res.called /\ trace[n].res.success

\* C9, as stated: whenever run raises, nothing leaves execute_step; the step
\* yields a text that names the tool identifier and the error detail, the
\* step is classified Failed and the run halts at that step.
C9_FailureBoundary ==
    \A n \in 1..Len(trace) :
        LET e == trace[n]
        IN  e.res.origin = "run" =>
               /\ ~e.res.raised
               /\ e.res.output.k = "str"
               /\ Contains(e.res.output.v, e.res.module_name.v)
               /\ Contains(e.res.output.v, e.res.detail)
               /\ ~e.res.success
               /\ n = Len(trace)

\* What the step reports.
ReportsUnknownTool(e) ==
    /\ e.res.output.k = "str"
    /\ StartsWith(e.res.output.v,
                  <<"E", "r", "r", "o", "r", ":", " ", "C", "o", "u", "l", "d", " ",
                    "n", "o", "t", " ", "f", "i", "n", "d", " ", "m", "o", "d", "u", "l", "e">>)
ReportsMissingRun(e) ==
    /\ e.res.output.k = "str"
    /\ Contains(e.res.output.v,
                <<"d", "o", "e", "s", " ", "n", "o", "t", " ", "h", "a", "v", "e", " ", "a",
                  " ", Apostrophe, "r", "u", "n", Apostrophe, " ",
                  "f", "u", "n", "c", "t", "i", "o", "n">>)

\* C10, as stated: a step reports UnknownTool exactly when its normalized
\* identifier is no registered module, MissingRunEntrypoint exactly when the
\* module has no run, and a failure raised inside run is reported as neither.
C10_PreciseResolutionErrors ==
    \A n \in 1..Len(trace) :
        LET e == trace[n]
        IN  Substituted(e) =>
               /\ ReportsUnknownTool(e)
                     <=> e.res.module_name.v \notin (ModulesWithRun \cup ModulesWithoutRun)
               /\ ReportsMissingRun(e) <=> e.res.module_name.v \in ModulesWithoutRun
               /\ e.res.origin = "run" => (~ReportsUnknownTool(e) /\ ~ReportsMissingRun(e))

\* ------------------------------------------------------------------------
\* Properties of planning failures and of the reports (checked under Spec).
\* ------------------------------------------------------------------------

\* v is a sequence whose every element is a mapping with the tool key and
\* the payload key.
IsPlanShape(v) ==
    /\ v.k = "list"
    /\ \A n \in 1..Len(v.v) :
          /\ v.v[n].k = "dict"
          /\ \E m \in 1..Len(v.v[n].v) : v.v[n].v[m][1] = KeyApprentice
          /\ \E m \in 1..Len(v.v[n].v) : v.v[n].v[m][1] = KeyPayload

\* The plan compiler failed: the model call raised, the repaired text is no
\* JSON, or the parsed value has not the shape of a plan.
PlanningFailed ==
    /\ pc # "start"
    /\ \/ ~reply.ok
       \/ ~JsonLoads(json_plan_str).ok
       \/ ~IsPlanShape(JsonLoads(json_plan_str).val)

\* C11: whenever the plan compiler fails, execute_step is never called for
\* the request (no capability is invoked) and the request is not reported
\* Completed: it ends with the report that there is no plan.
C11_NoPartialExecution ==
    PlanningFailed =>
        /\ trace = <<>>
        /\ plan = None
        /\ pc = "returned"
        /\ console = <<Printed("no_plan", 0, None)>>

\* C11 witness: the reply whose step has no payload key was refused and the
\* request is over.
C11_Witness ==
    /\ PlanningFailed /\ reply = Answer(TxtNoPayload)
    /\ JsonLoads(json_plan_str).ok
    /\ pc = "returned" /\ Reported = "no_plan"

\* C12: when the repaired text parses, call_llm returns the parsed value as
\* the plan if it is a sequence of mappings that all have both keys, and
\* returns no plan for any other parsed value.
C12_StructuralValidation ==
    (pc # "start" /\ reply.ok /\ JsonLoads(json_plan_str).ok /\ trace = <<>>) =>
        IF IsPlanShape(JsonLoads(json_plan_str).val)
        THEN plan = JsonLoads(json_plan_str).val
        ELSE plan = None

\* C12 witness: the reply ["file_writer"] parsed to a list of a text and
\* call_llm returned no plan.
C12_Witness ==
    /\ pc # "start" /\ reply = Answer(TxtNotADict)
    /\ JsonLoads(json_plan_str) = [ok |-> TRUE, val |-> PyList(<<PyStrVal(ModFileWriter)>>)]
    /\ plan = None

\* C13, as stated: every step of a plan that call_llm returned has a
\* non-empty tool identifier and a payload that is present and not null; a
\* reply with another step is refused before any step runs.
C13_StepInvariantAtPlanning ==
    (pc # "start" /\ plan.k = "list") =>
        \A n \in 1..Len(plan.v) :
            /\ DictGet(plan.v[n], KeyApprentice).k = "str"
            /\ Len(DictGet(plan.v[n], KeyApprentice).v) > 0
            /\ DictGet(plan.v[n], KeyPayload).k # "null"

\* C14, as stated: every failure report names the failing step by its
\* 1-based index and carries that step's diagnostic text, for every way a
\* step can fail.
C14_FailureCarriesDiagnostic ==
    /\ \A m \in 1..Len(console) :
          console[m].msg = "step_failed" =>
              /\ console[m].step = trace[Len(trace)].index
              /\ console[m].output = trace[Len(trace)].res.output
              /\ console[m].output.k = "str"
              /\ Len(console[m].output.v) > 0
    /\ (pc = "returned" /\ Reported = "failed") =>
          \E m \in 1..Len(console) : console[m].msg = "step_failed"

\* ------------------------------------------------------------------------
\* The end-to-end scenario (checked under Spec).
\* ------------------------------------------------------------------------
ScenarioText ==
    <<"[", "{", DoubleQuote, "a", "p", "p", "r", "e", "n", "t", "i", "c", "e", DoubleQuote,
      ":", " ", DoubleQuote, "f", "i", "l", "e", "_", "w", "r", "i", "t", "e", "r",
      DoubleQuote, ",", " ", DoubleQuote, "p", "a", "y", "l", "o", "a", "d", DoubleQuote,
      ":", " ", "{", DoubleQuote, "f", "i", "l", "e", "n", "a", "m", "e", DoubleQuote, ":",
      " ", DoubleQuote, "o", "u", "t", ".", "t", "x", "t", DoubleQuote, ",", " ",
      DoubleQuote, "c", "o", "n", "t", "e", "n", "t", DoubleQuote, ":", " ", DoubleQuote,
      "h", "i", DoubleQuote, "}", "}", "]">>
ScenarioPayload ==
    PyDict(<< <<TxtFilename, PyStrVal(TxtOutTxt)>>, <<TxtContent, PyStrVal(<<"h", "i">>)>> >>)
ScenarioSuccess ==
    <<"S", "u", "c", "c", "e", "s", "s", ":", " ", "W", "r", "o", "t", "e", " ", "2", " ",
      "c", "h", "a", "r", "a", "c", "t", "e", "r", "s", " ", "t", "o", " ", "o", "u", "t",
      ".", "t", "x", "t", " ", "(", "m", "o", "d", "e", ":", " ", "w", "r", "i", "t", "e",
      ")", ".">>

\* C15: for the reply that is a code-fenced, single-quoted one-step array
\* naming file_writer with the payload {filename, content}: the repaired text
\* has no fence and double quotes, the plan is exactly that one step,
\* execute_step is called at most once, for the module file_writer with that
\* payload, and when the write works the writer is invoked, reports its
\* success and the run is reported Completed.
C15_EndToEnd ==
    (pc # "start" /\ reply = FencedReply) =>
        /\ json_plan_str = ScenarioText
        /\ plan.k = "list" /\ Len(plan.v) = 1
        /\ DictGet(plan.v[1], KeyPayload) = ScenarioPayload
        /\ pc # "crashed"
        /\ Len(trace) <= 1
        /\ \A n \in 1..Len(trace) :
              /\ trace[n].step0 = Step(ShortWriter, ScenarioPayload)
              /\ trace[n].res.module_name = FullWriter
              /\ trace[n].res.payload = ScenarioPayload
              /\ trace[n].env.stage # "import_raises" => trace[n].res.called
              /\ trace[n].env = RunRuns("ok", <<"h", "i">>, <<>>) =>
                    /\ trace[n].res.output = PyStrVal(ScenarioSuccess)
                    /\ trace[n].res.success
                    /\ pc = "returned" => console = <<Printed("completed", 0, None)>>
        /\ (pc = "returned") => Len(trace) = 1

\* C15 witness: the scenario ran to its end: one call of the writer, which
\* wrote, and the report Completed.
C15_Witness ==
    /\ pc = "returned" /\ reply = FencedReply
    /\ Len(trace) = 1 /\ trace[1].res.called
    /\ trace[1].res.output = PyStrVal(ScenarioSuccess)
    /\ Reported = "completed"

\* ------------------------------------------------------------------------
\* Properties of the loop of handle_request (checked under Spec and, for
\* termination, under SpecLive).
\* ------------------------------------------------------------------------

\* The text that takes the place of the token for the previous output prev.
SubstitutedText(prev) == IF prev.k = "null" THEN <<>> ELSE PyStr(prev)

\* The output of the last step classified Succeeded (None when there is
\* none).
LastSucceededOutput ==
    LET ok == {n \in 1..Len(trace) : ~trace[n].res.raised /\ trace[n].res.success}
    IN  IF ok = {} THEN None
        ELSE trace[CHOOSE n \in ok : \A m \in ok : m <= n].res.output

\* C16: every step n > 1 that executes gets the raw output of step n-1, a
\* step classified Succeeded, as its previous output, and the token values
\* of its payload are replaced from that output alone; previous_step_output
\* is None until a step succeeds and then is the raw output of the last
\* step classified Succeeded.
C16_SingleDataChannel ==
    /\ \A n \in 2..Len(trace) :
          /\ ~trace[n - 1].res.raised /\ trace[n - 1].res.success
          /\ trace[n].prev = trace[n - 1].res.output
          /\ Substituted(trace[n]) =>
                SubstitutionOf(DictGet(trace[n].step0, KeyPayload), trace[n].res.payload,
                               SubstitutedText(trace[n - 1].res.output))
    /\ previous_step_output = LastSucceededOutput

\* C16 witness: step 1 returned "X", step 2 returned a list, and step 3 was
\* run with the text of the list, not with "X".
C16_Witness ==
    /\ Len(trace) = 3
    /\ trace[1].res.output = PyStrVal(<<"X">>)
    /\ trace[2].res.output = PyList(<<PyStrVal(TxtATxt), PyStrVal(TxtBTxt)>>)
    /\ trace[3].res.called
    /\ DictGet(trace[3].res.payload, TxtContent)
          = PyStrVal(PyStr(PyList(<<PyStrVal(TxtATxt), PyStrVal(TxtBTxt)>>)))

\* C17: execute_step is called for the steps in plan order, one call per
\* step (no step twice, none skipped, none gone back to), and a call for
\* step n+1 is made only after the call for step n has returned from run and
\* was classified Succeeded.  (A call of execute_step is one step of the
\* model, as handle_request makes it synchronously on its only thread.)
C17_StrictLinearExecution ==
    /\ trace # <<>> => (plan.k = "list" /\ Len(trace) <= Len(plan.v))
    /\ \A n \in 1..Len(trace) :
          /\ trace[n].index = n
          /\ DictGet(trace[n].step0, KeyPayload) = DictGet(plan.v[n], KeyPayload)
          /\ n < Len(trace) =>
                /\ trace[n].res.origin = "returned" /\ trace[n].res.called
                /\ trace[n].res.success
    /\ i <= Len(trace) /\ Len(trace) <= i + 1

\* C17 witness: three steps were run, each by one call.
C17_Witness ==
    /\ Len(trace) = 3 /\ i = 3
    /\ \A n \in 1..3 : trace[n].res.called /\ trace[n].index = n

\* The run is over with exactly one of the two final reports.
Terminal ==
    /\ pc = "returned"
    /\ Reported \in {"completed", "failed"}
    /\ Cardinality({m \in 1..Len(console) : console[m].msg \in {"completed", "failed"}}) = 1

\* C18: a run of a plan whose tool identifiers are texts (every call returns
\* or raises, as every step of the model does) comes to exactly one of
\* Completed and Failed; after that nothing changes and execute_step is not
\* called again.
C18_TerminalStates ==
    /\ (pc = "loop" /\ ToolsAreText) ~> Terminal
    /\ [][Terminal => (Terminal' /\ console' = console /\ trace' = trace)]_vars

\* C18 witness: a run whose first step raised inside run is over, reported
\* Failed.
C18_Witness ==
    /\ Terminal /\ Reported = "failed"
    /\ Len(trace) = 1 /\ trace[1].res.origin = "run"

\* text without its leading whitespace.
RECURSIVE LeadingDropped(_)
LeadingDropped(text) ==
    IF text # <<>> /\ Head(text) \in {" ", "\n", "\t", "\r"}
    THEN LeadingDropped(Tail(text))
    ELSE text

\* text begins with marker once leading whitespace is ignored and case is
\* folded.
BeginsWith(text, marker) ==
    LET t == LeadingDropped(text)
    IN  /\ Len(t) >= Len(marker)
        /\ \A n \in 1..Len(marker) : LowerChar(t[n]) = marker[n]

\* C19: a text result is classified Failed if and only if it begins, after
\* leading whitespace and in any case, with "error:" or the cross mark; a
\* text result that begins with a success marker is classified Succeeded.
C19_FailureMarkerClassification ==
    \A n \in 1..Len(trace) :
        LET e == trace[n]
        IN  (e.res.origin = "returned" /\ e.res.output.k = "str") =>
               /\ ~e.res.success <=>
                     \/ BeginsWith(e.res.output.v, <<"e", "r", "r", "o", "r", ":">>)
                     \/ BeginsWith(e.res.output.v, <<CrossMark>>)
               /\ (\/ BeginsWith(e.res.output.v, <<"s", "u", "c", "c", "e", "s", "s", ":">>)
                   \/ BeginsWith(e.res.output.v, <<CheckMark>>)) => e.res.success

\* C19 witness: run returned "  ERROR: x" and the step was classified Failed.
C19_Witness ==
    /\ Len(trace) >= 1
    /\ trace[1].res.origin = "returned"
    /\ trace[1].res.output = PyStrVal(<<" ", " ", "E", "R", "R", "O", "R", ":", " ", "x">>)
    /\ ~trace[1].res.success

\* C20, as stated: on every step after the first, each token value is
\* replaced by the string form of the raw output of the step before,
\* whatever it was, a None that was classified Succeeded included.
C20_StringFormAfterFirstStep ==
    \A n \in 2..Len(trace) :
        (Substituted(trace[n]) /\ HasSentinelValue(DictGet(trace[n].step0, KeyPayload))) =>
            /\ SubstitutionOf(DictGet(trace[n].step0, KeyPayload), trace[n].res.payload,
                              PyStr(trace[n - 1].res.output))
            /\ SubstitutionOf(DictGet(trace[n].step0, KeyPayload), trace[n].res.payload, <<>>)
                  => PyStr(trace[n - 1].res.output) = <<>>

\* C20, amended: the empty string takes the place of the token when there is
\* no previous output or the previous output is None: on every step after
\* the first, each token value is replaced by the empty string if the step
\* before returned None, and by the string form of its raw output otherwise.
C20_EmptyStringForNone ==
    \A n \in 2..Len(trace) :
        (Substituted(trace[n]) /\ HasSentinelValue(DictGet(trace[n].step0, KeyPayload))) =>
            LET before == DictGet(trace[n].step0, KeyPayload)
                after == trace[n].res.payload
                out == trace[n - 1].res.output
            IN  /\ out.k = "null" => SubstitutionOf(before, after, <<>>)
                /\ out.k # "null" => SubstitutionOf(before, after, PyStr(out))
                /\ SubstitutionOf(before, after, <<>>) => (out.k = "null" \/ PyStr(out) = <<>>)

\* C20 witness: step 1 returned None and was classified Succeeded; step 2
\* wrote the empty string where its payload had the token.
C20_Witness ==
    /\ Len(trace) >= 2
    /\ trace[1].res.output = None /\ trace[1].res.success
    /\ trace[2].res.called
    /\ DictGet(trace[2].step0, KeyPayload) = PayNested
    /\ trace[2].res.payload =
          PyDict(<< <<<<"a">>, PyList(<<PyStrVal(<<>>),
                                        PyDict(<< <<<<"b">>, PyStrVal(<<>>)>> >>)>>)>>,
                    <<<<"n">>, PyInt(1)>> >>)

\* ------------------------------------------------------------------------
\* Properties of the repair pipeline, continued (checked under SpecRepair).
\* ------------------------------------------------------------------------

\* TRUE when raw has a '[' and a ']' and the last ']' is after the first '['.
LastCloseAfterFirstOpen(raw) ==
    \E a \in 1..Len(raw) : \E b \in 1..Len(raw) :
        /\ raw[a] = "[" /\ \A x \in 1..(a - 1) : raw[x] # "["
        /\ raw[b] = "]" /\ \A x \in (b + 1)..Len(raw) : raw[x] # "]"
        /\ a < b

\* C21: when the raw reply contains a '[' and a ']' with the last ']' after
\* the first '[', the pipeline continues on exactly the span from the first
\* '[' to the last ']' inclusive (the rules of the sliced path and the brace
\* balance are applied to that span, nothing of the text around it is left);
\* otherwise it continues on the whole raw reply and prints the warning.
C21_BracketSlicing ==
    (pc # "start" /\ reply.ok) =>
        LET raw == Strip(reply.content)
            warned == \E n \in 1..Len(notices) : notices[n].msg = "no_brackets"
        IN  IF LastCloseAfterFirstOpen(raw)
            THEN /\ json_plan_str = BraceBalance(SlicedCleanup(BracketSpan(raw)))
                 /\ Len(json_plan_str) > 0 => json_plan_str[1] = "["
                 /\ ~warned
            ELSE /\ json_plan_str = BraceBalance(FallbackCleanup(raw))
                 /\ warned

\* C21 witness: the prose around a plan was discarded, the plan was parsed.
C21_Witness ==
    /\ pc # "start"
    /\ reply = Answer(TxtProseBefore \o TxtPlanOfOne \o TxtProseAfter)
    /\ json_plan_str = TxtPlanOfOne
    /\ notices = <<>>
    /\ plan.k = "list" /\ Len(plan.v) = 1

\* C22: for every model reply, on the sliced path and on the fallback path
\* alike, the text handed to the JSON parser contains no code-fence marker
\* (three backticks) and no emphasis marker ('**').
C22_MarkerStripping ==
    (pc # "start" /\ reply.ok) =>
        /\ ~Contains(json_plan_str, <<Backtick, Backtick, Backtick>>)
        /\ ~Contains(json_plan_str, <<"*", "*">>)

\* The literals of Python and the JSON literals the repair writes for them.
PythonLiterals ==
    { [py |-> <<"T", "r", "u", "e">>, json |-> <<"t", "r", "u", "e">>],
      [py |-> <<"F", "a", "l", "s", "e">>, json |-> <<"f", "a", "l", "s", "e">>],
      [py |-> <<"N", "o", "n", "e">>, json |-> <<"n", "u", "l", "l">>] }

\* TRUE for a character that continues a word.
IsWordChar(c) ==
    \/ LowerChar(c) # c
    \/ c \in {"a", "b", "c", "d", "e", "f", "g", "h", "i", "j", "k", "l", "m", "n", "o",
              "p", "q", "r", "s", "t", "u", "v", "w", "x", "y", "z", "_"}
    \/ IsDigit(c)

\* word is in text at the 1-based position n.
OccursAt(text, word, n) ==
    n + Len(word) - 1 <= Len(text) /\ SubSeq(text, n, n + Len(word) - 1) = word

\* The occurrence of word at n is a whole word that follows a ':' or a ','
\* (directly, or after spaces).
WholeWordAfterSeparator(text, word, n) ==
    /\ OccursAt(text, word, n)
    /\ n + Len(word) <= Len(text) => ~IsWordChar(text[n + Len(word)])
    /\ \E m \in 1..(n - 1) :
          text[m] \in {":", ","} /\ \A x \in (m + 1)..(n - 1) : text[x] = " "

\* C23: the repair converts every whole-word True, False and None that
\* follows a ':' or a ',' into true, false and null, on the sliced and on the
\* fallback path, and changes no other occurrence: a longer word that starts
\* with True, False or None is left as it is.
C23_LiteralNormalization ==
    (pc # "start" /\ reply.ok) =>
        LET source == BracketSpan(Strip(reply.content))
        IN  \A lit \in PythonLiterals :
               /\ \A n \in 1..Len(json_plan_str) :
                     ~WholeWordAfterSeparator(json_plan_str, lit.py, n)
               /\ Cardinality({n \in 1..Len(json_plan_str) :
                                  OccursAt(json_plan_str, lit.py, n)})
                    = Cardinality({n \in 1..Len(source) :
                                      /\ OccursAt(source, lit.py, n)
                                      /\ ~WholeWordAfterSeparator(source, lit.py, n)})

\* C24: for a model reply that is a valid plan array cut off inside an object
\* (so that it has more '{' than '}'), the brace balance appends the missing
\* '}' and call_llm returns a valid plan, not None.
C24_TruncationRecovery ==
    (pc # "start" /\ reply.ok /\ reply.content \in TruncatedTexts) =>
        /\ \E n \in 1..Len(notices) : notices[n].msg = "added_braces"
        /\ Balanced(json_plan_str)
        /\ plan.k = "list" /\ Len(plan.v) > 0

\* ------------------------------------------------------------------------
\* Properties of the plan handed to the executor (checked under Spec).
\* ------------------------------------------------------------------------

\* C25: a model reply that repairs and parses to an empty array is treated
\* as no plan: call_llm returns the empty list, execute_step is not called
\* and the run is not reported completed (the only message is the one of the
\* missing plan); every plan that reaches the loop has at least one step.
\* (The text is parsed in the states before the first step: it does not
\* change afterwards.)
C25_EmptyPlanIsNoPlan ==
    /\ (pc # "start" /\ trace = <<>> /\ reply.ok /\ JsonLoads(json_plan_str).ok
           /\ JsonLoads(json_plan_str).val = PyList(<<>>))
          => plan = PyList(<<>>)
    /\ plan = PyList(<<>>)
          => /\ pc = "returned"
             /\ trace = <<>>
             /\ console = <<Printed("no_plan", 0, None)>>
    /\ (pc = "loop" \/ trace # <<>>) => (plan.k = "list" /\ Len(plan.v) >= 1)

\* C25 witness: the reply with an empty array in prose was parsed to the
\* empty list and the request was dropped.
C25_Witness ==
    /\ pc = "returned"
    /\ reply = Answer(TxtEmptyPlanInProse)
    /\ json_plan_str = <<"[", " ", "]">>
    /\ plan = PyList(<<>>)
    /\ Reported = "no_plan"

\* C26: whenever the repair takes the fallback path (the raw reply has no
\* '[' followed by a ']'), call_llm returns None: no text that went through
\* the fallback path parses and validates as a plan.
C26_FallbackYieldsNoPlan ==
    (pc # "start" /\ reply.ok /\ ~LastCloseAfterFirstOpen(Strip(reply.content)))
        => /\ plan = None
           /\ pc = "returned"
           /\ ~(JsonLoads(json_plan_str).ok /\ JsonLoads(json_plan_str).val.k = "list")

\* C26 witness: a reply without brackets that is JSON (one step, not in an
\* array) went through the fallback path and gave no plan.
C26_Witness ==
    /\ pc = "returned"
    /\ reply = Answer(TxtNotAList)
    /\ \E n \in 1..Len(notices) : notices[n].msg = "no_brackets"
    /\ JsonLoads(json_plan_str).ok
    /\ plan = None

\* C27: every failure that a bundled module reports as a returned value is
\* classified Failed, so that the run halts at that step and the failure
\* text is not passed on as the previous output of the next step; this
\* includes the results that begin with "Error " without a colon, the
\* "Warning:" results and the {"error": ...} mapping.
C27_ReportedFailuresHalt ==
    \A n \in 1..Len(trace) :
        (trace[n].res.origin = "returned" /\ trace[n].res.output \in ReportedFailures)
            => /\ ~trace[n].res.success
               /\ n = Len(trace)
               /\ previous_step_output # trace[n].res.output

\* ------------------------------------------------------------------------
\* Frame properties of execute_step (checked under Spec).
\* ------------------------------------------------------------------------

\* C28: executing a step never changes a payload stored in the plan: over
\* every step of the loop each step of the plan keeps its payload (sentinels
\* included), its keys and their order, and the only value that may differ
\* afterwards is the tool identifier, which is then the normalized form of
\* the one before.
C28_StoredPayloadUnchanged ==
    [][pc = "loop" =>
        /\ plan'.k = "list" /\ Len(plan'.v) = Len(plan.v)
        /\ \A n \in 1..Len(plan.v) :
              LET now == plan'.v[n]
                  was == plan.v[n]
              IN  /\ DictGet(now, KeyPayload) = DictGet(was, KeyPayload)
                  /\ Len(now.v) = Len(was.v)
                  /\ \A m \in 1..Len(now.v) :
                        /\ now.v[m][1] = was.v[m][1]
                        /\ now.v[m][1] # KeyApprentice => now.v[m] = was.v[m]
                  /\ \/ DictGet(now, KeyApprentice) = DictGet(was, KeyApprentice)
                     \/ /\ DictGet(was, KeyApprentice).k = "str"
                        /\ DictGet(now, KeyApprentice)
                             = PyStrVal(NamespacePrefix \o DictGet(was, KeyApprentice).v)]_vars

\* C28 witness: a step ran with a payload in which the sentinel was
\* replaced by a text, its tool identifier was rewritten in the plan, and the
\* plan still holds the payload with the sentinel.
C28_Witness ==
    \E n \in 1..Len(trace) :
        /\ trace[n].res.origin = "returned"
        /\ trace[n].prev.k = "str" /\ Len(trace[n].prev.v) > 0
        /\ HasSentinelValue(DictGet(plan.v[n], KeyPayload))
        /\ trace[n].res.payload # DictGet(plan.v[n], KeyPayload)
        /\ DictGet(plan.v[n], KeyApprentice) # DictGet(trace[n].step0, KeyApprentice)

\* after is before with nothing changed but values that are exactly the
\* token: the same keys in the same order, the same lengths, and every
\* other leaf (a longer string that contains the token included) as it was.
RECURSIVE OnlyTokenValuesDiffer(_, _)
OnlyTokenValuesDiffer(before, after) ==
    IF before.k = "dict"
    THEN /\ after.k = "dict" /\ Len(after.v) = Len(before.v)
         /\ \A n \in 1..Len(before.v) :
               /\ after.v[n][1] = before.v[n][1]
               /\ OnlyTokenValuesDiffer(before.v[n][2], after.v[n][2])
    ELSE IF before.k = "list"
    THEN /\ after.k = "list" /\ Len(after.v) = Len(before.v)
         /\ \A n \in 1..Len(before.v) : OnlyTokenValuesDiffer(before.v[n], after.v[n])
    ELSE (before.k = "str" /\ before.v = Sentinel) \/ after = before

\* C29: substitution replaces only values that are exactly the string
\* "$PREV_OUTPUT": a string that contains the token as a substring, a
\* mapping key equal to the token and every non-string scalar are passed to
\* the capability unchanged.
C29_OnlyExactTokenReplaced ==
    \A n \in 1..Len(trace) :
        Substituted(trace[n]) =>
            LET before == DictGet(trace[n].step0, KeyPayload)
                after == trace[n].res.payload
            IN  /\ OnlyTokenValuesDiffer(before, after)
                /\ ~HasSentinelValue(before) => after = before

\* C29 witness: a payload with the token as a key and inside a longer
\* string, a boolean, a null and an empty mapping was handed to run as it
\* was, on a step with a previous output.
C29_Witness ==
    \E n \in 1..Len(trace) :
        /\ trace[n].res.called
        /\ trace[n].prev.k = "str" /\ Len(trace[n].prev.v) > 0
        /\ DictGet(trace[n].step0, KeyPayload) = PayOdd
        /\ trace[n].res.payload = PayOdd

\* C30: every identifier the executor tries to resolve (every module name
\* that reaches the import) is a text that starts with the namespace prefix
\* "aura_core.apprentices.", whatever tool identifier the plan holds; an
\* identifier that already has the prefix is left unchanged, and normalizing
\* twice equals normalizing once: executing the step that execute_step left
\* behind resolves the same name and leaves the same step.  Stated of every
\* call of execute_step, that is of the entry each step adds to the trace.
C30_NamespaceConfinement ==
    [][Len(trace') > Len(trace) =>
        LET e == trace'[Len(trace')]
            given == DictGet(e.step0, KeyApprentice)
            again == execute_step(e.res.step, e.prev, e.env)
        IN  /\ e.res.origin \notin {"crash", "invalid"} =>
                  /\ e.res.module_name.k = "str"
                  /\ StartsWith(e.res.module_name.v, NamespacePrefix)
                  /\ DictGet(e.res.step, KeyApprentice) = e.res.module_name
            /\ (given.k = "str" /\ StartsWith(given.v, NamespacePrefix)) =>
                  /\ e.res.step = e.step0
                  /\ e.res.module_name = given
            /\ e.res.origin # "crash" =>
                  /\ again.step = e.res.step
                  /\ again.module_name = e.res.module_name]_vars

\* C30 witness: three steps were resolved, the first by a short name that
\* was given the prefix, the third by a full name that was left as it was.
C30_Witness ==
    /\ Len(trace) = 3
    /\ DictGet(trace[1].step0, KeyApprentice) = ShortReader
    /\ trace[1].res.module_name = PyStrVal(NamespacePrefix \o ModFileReader)
    /\ DictGet(trace[3].step0, KeyApprentice) = FullWriter
    /\ trace[3].res.module_name = FullWriter
    /\ trace[3].res.called

====
